---- MODULE Spec2Model ----
(***************************************************************************)
(* State-machine model of the multi-tenant SaaS backend:                   *)
(*   - the credit-metered AI gateway (AiService, TenantsService usage),    *)
(*   - registration (AuthService.register) and tenant updates.             *)
(* Every request handler is an asynchronous function; a process of the     *)
(* model is one in-flight invocation and its steps are the handler's       *)
(* awaits, so that concurrent requests interleave at exactly the points    *)
(* where the event loop can switch.                                        *)
(***************************************************************************)
EXTENDS Integers, Sequences, FiniteSets, TLC

\* ------------------------------------------------------------------ bounds
\* Total number of AI gateway invocations in one behaviour.
MaxAiCalls == 2
\* Months the clock can reach (the first month is 1).
MaxMonth == 2
\* How far below its limit a tenant's initial current-month usage may lie.
MaxSlack == 4

AiProcs == {"a1", "a2"}

RegProcs == {"r1", "r2"}

TenantIds == {1}

\* ------------------------------------------------------- program constants
\* AI_SERVICE_CREDITS[AiServiceType.TEXT_SUMMARIZATION]
SummarizationCredits == 2
\* AI_SERVICE_CREDITS[AiServiceType.DOCUMENT_QA]
DocumentQaCredits == 3
\* settings.aiCreditsLimit || 100
DefaultCreditsLimit == 100
\* settings.apiRateLimit || 10
DefaultRateLimit == 10

TEXT_SUMMARIZATION == "text_summarization"
DOCUMENT_QA == "document_qa"
AiServiceTypes == {TEXT_SUMMARIZATION, DOCUMENT_QA}

AI_SERVICE_CREDITS(type) ==
    IF type = TEXT_SUMMARIZATION THEN SummarizationCredits ELSE DocumentQaCredits

PROCESSING == "processing"
COMPLETED == "completed"
FAILED == "failed"

\* A missing string column (SQL NULL).
Null == "null"

VARIABLES
    tenants,      \* Tenant table: set of rows
    usage,        \* Usage table: set of rows, one per (tenantId, month)
    aiRequests,   \* AiRequest table: set of rows
    month,        \* the wall clock, in months (new Date().toISOString().slice(0, 7))
    nextAiId,     \* uuidv4(): the next fresh AiRequest id
    calls,        \* number of AI gateway invocations so far
    ledger,       \* per (tenantId, month): credits and requests of the completed increments
    ai,           \* one record per AI gateway process: position and locals
    users,        \* User table: set of rows
    teamMembers,  \* TeamMember table: set of rows
    subscriptions,\* Subscription table: set of rows
    regCalls,     \* number of register invocations so far
    updates,      \* number of updateTenant invocations so far
    reg,          \* one record per register process: position and locals
    auth,         \* one record per login / refreshToken process
    uops,         \* one record per updateUser / deactivateUser process
    now,          \* the wall clock, in days (Date.now())
    authCalls,    \* number of auth and users-service invocations so far
    webhookEvents,\* WebhookEvent table: set of rows
    hook,         \* one record per handleStripeWebhook process
    hookCalls,    \* number of webhook deliveries so far
    nextHookId,   \* the next generated WebhookEvent id
    webhookSecret,\* configService.get('STRIPE_WEBHOOK_SECRET')
    answer,       \* the completion text answerQuestion received
    confidence,   \* calculateConfidence(answer), in tenths; 0 before it is computed
    customers,    \* the customers held by the payment provider
    bill,         \* one record per billing-service process
    billCalls,    \* number of billing-service invocations so far
    nextCustomerId\* the next customer id the payment provider gives out

aiVars == <<usage, aiRequests, month, nextAiId, calls, ledger, ai>>

regVars == <<users, teamMembers, subscriptions, regCalls, updates, reg>>

authVars == <<auth, uops, now, authCalls>>

hookVars == <<webhookEvents, hook, hookCalls, nextHookId, webhookSecret>>

qaVars == <<answer, confidence>>

billVars == <<customers, bill, billCalls, nextCustomerId>>

svcVars == <<authVars, hookVars, qaVars, billVars>>

vars == <<tenants, aiVars, regVars, svcVars>>

\* The services a specification leaves out have no invocation in flight.
NoAuth == auth = << >> /\ uops = << >> /\ now = 0 /\ authCalls = 0

NoQa == answer = << >> /\ confidence = 0

NoBill == customers = {} /\ bill = << >> /\ billCalls = 0 /\ nextCustomerId = 1

NoHooks ==
    /\ webhookEvents = {}
    /\ hook = << >>
    /\ hookCalls = 0
    /\ nextHookId = 1
    /\ webhookSecret = "unset"

\* ------------------------------------------------------------ persistence
\* Rows written inside a database transaction carry the transaction that wrote
\* them until it commits; every statement outside that transaction sees the
\* committed rows only (PostgreSQL READ COMMITTED).
Committed == "committed"

\* prisma.tenant.findUnique({ where: { id } }): the matching rows (none or one).
findById(id) == {t \in tenants : t.id = id /\ t.tx = Committed}

\* prisma.usage.findUnique({ where: { tenantId_month } })
findUsage(tenantId, m) == {u \in usage : u.tenantId = tenantId /\ u.month = m}

\* The counters stored for (tenantId, m); 0 when there is no row.
CreditsIn(rows, tenantId, m) ==
    LET rs == {u \in rows : u.tenantId = tenantId /\ u.month = m}
    IN IF rs = {} THEN 0 ELSE (CHOOSE u \in rs : TRUE).aiCreditsUsed

RequestsIn(rows, tenantId, m) ==
    LET rs == {u \in rows : u.tenantId = tenantId /\ u.month = m}
    IN IF rs = {} THEN 0 ELSE (CHOOSE u \in rs : TRUE).apiRequestsCount

\* JavaScript `v || d` on a number: 0 is falsy.
OrDefault(v, d) == IF v = 0 THEN d ELSE v

\* TenantsService.getTenantUsage, given the tenant row and the usage rows read.
UsageReport(tenant, rows) ==
    [aiCreditsUsed |-> IF rows = {} THEN 0
                       ELSE OrDefault((CHOOSE u \in rows : TRUE).aiCreditsUsed, 0),
     apiRequestsCount |-> IF rows = {} THEN 0
                          ELSE OrDefault((CHOOSE u \in rows : TRUE).apiRequestsCount, 0),
     aiCreditsLimit |-> OrDefault(tenant.settings.aiCreditsLimit, DefaultCreditsLimit),
     apiRateLimit |-> OrDefault(tenant.settings.apiRateLimit, DefaultRateLimit)]

\* A credit check that forgets the cost of the request.
InsufficientCreditsIgnoringCost(report, creditsRequired) ==
    report.aiCreditsUsed > report.aiCreditsLimit

\* AiService.checkCredits: the condition under which PaymentRequired is thrown.
InsufficientCredits(report, creditsRequired) ==
    report.aiCreditsUsed + creditsRequired > report.aiCreditsLimit

\* An upsert whose update branch sets the counters instead of incrementing them.
UsageUpsertOverwrites(rows, tenantId, m, aiCredits, apiRequests) ==
    {u \in rows : ~(u.tenantId = tenantId /\ u.month = m)} \cup
        {[tenantId |-> tenantId, month |-> m,
          aiCreditsUsed |-> aiCredits, apiRequestsCount |-> apiRequests]}

\* A create in place of the upsert: every increment adds a row.
UsageUpsertAlwaysCreates(rows, tenantId, m, aiCredits, apiRequests) ==
    rows \cup {[tenantId |-> tenantId, month |-> m,
                aiCreditsUsed |-> aiCredits, apiRequestsCount |-> apiRequests]}

\* prisma.usage.upsert of TenantsService.incrementUsage: one statement, which
\* increments the row of (tenantId, month) or creates it.
UsageUpsert(rows, tenantId, m, aiCredits, apiRequests) ==
    IF \E u \in rows : u.tenantId = tenantId /\ u.month = m
    THEN {IF u.tenantId = tenantId /\ u.month = m
          THEN [u EXCEPT !.aiCreditsUsed = @ + aiCredits,
                         !.apiRequestsCount = @ + apiRequests]
          ELSE u : u \in rows}
    ELSE rows \cup {[tenantId |-> tenantId, month |-> m,
                     aiCreditsUsed |-> aiCredits, apiRequestsCount |-> apiRequests]}

\* prisma.aiRequest.update({ where: { id }, data }) setting status (and output or
\* errorMessage); `updates` counts the updates a row has received.
AiRequestUpdate(rows, id, status, output, errorMessage) ==
    {IF r.id = id
     THEN [r EXCEPT !.status = status,
                    !.output = IF output = Null THEN @ ELSE output,
                    !.errorMessage = IF errorMessage = Null THEN @ ELSE errorMessage,
                    !.updates = @ + 1]
     ELSE r : r \in rows}

\* ------------------------------------------------------------ AI gateway
IdleAi ==
    [pc |-> "idle", tenantId |-> 0, type |-> Null, creditsRequired |-> 0,
     limitRead |-> 0, usedRead |-> 0, limitSeen |-> 0, rowId |-> 0,
     model |-> Null, error |-> Null, outcome |-> Null, creditsUsed |-> 0,
     charged |-> 0, requests |-> 0, startOk |-> FALSE]

\* The tenant's current-month usage as getTenantUsage would report it now.
CurrentReport(tenantId) ==
    UsageReport(CHOOSE t \in findById(tenantId) : TRUE, findUsage(tenantId, month))

\* summarizeText / answerQuestion, up to the first await: creditsRequired is
\* looked up and checkCredits is entered.
Invoke(p, tenantId, type) ==
    /\ ai[p].pc = "idle"
    /\ calls < MaxAiCalls
    /\ calls' = calls + 1
    /\ ai' = [ai EXCEPT ![p] =
                [IdleAi EXCEPT !.pc = "getTenant", !.tenantId = tenantId,
                               !.type = type,
                               !.creditsRequired = AI_SERVICE_CREDITS(type),
                               !.startOk =
                                   /\ findById(tenantId) # {}
                                   /\ ~InsufficientCredits(CurrentReport(tenantId),
                                                           AI_SERVICE_CREDITS(type))]]
    /\ UNCHANGED <<svcVars, regVars, tenants, usage, aiRequests, month, nextAiId, ledger>>

summarizeText(p, tenantId) == Invoke(p, tenantId, TEXT_SUMMARIZATION)

answerQuestion(p, tenantId) == Invoke(p, tenantId, DOCUMENT_QA)

\* getTenantUsage: const tenant = await this.findById(id)
GetTenant(p) ==
    /\ ai[p].pc = "getTenant"
    /\ IF findById(ai[p].tenantId) = {}
       THEN ai' = [ai EXCEPT ![p].pc = "done", ![p].outcome = "NotFound"]
       ELSE ai' = [ai EXCEPT ![p].pc = "getUsage",
                             ![p].limitRead =
                                 (CHOOSE t \in findById(ai[p].tenantId) : TRUE)
                                     .settings.aiCreditsLimit]
    /\ UNCHANGED <<svcVars, regVars, tenants, usage, aiRequests, month, nextAiId, calls, ledger>>

\* A credit check that reads the usage and never throws.
CheckCreditsNeverThrows(p) ==
    /\ ai[p].pc = "getUsage"
    /\ LET report == UsageReport([settings |-> [aiCreditsLimit |-> ai[p].limitRead,
                                               apiRateLimit |-> 0]],
                                 findUsage(ai[p].tenantId, month))
       IN ai' = [ai EXCEPT ![p].usedRead = report.aiCreditsUsed,
                           ![p].limitSeen = report.aiCreditsLimit,
                           ![p].pc = "create"]
    /\ UNCHANGED <<svcVars, regVars, tenants, usage, aiRequests, month, nextAiId, calls, ledger>>

\* getTenantUsage: await this.prisma.usage.findUnique(...), the report, and the
\* comparison of checkCredits.
CheckCredits(p) ==
    /\ ai[p].pc = "getUsage"
    /\ LET report == UsageReport([settings |-> [aiCreditsLimit |-> ai[p].limitRead,
                                               apiRateLimit |-> 0]],
                                 findUsage(ai[p].tenantId, month))
       IN ai' = [ai EXCEPT
                   ![p].usedRead = report.aiCreditsUsed,
                   ![p].limitSeen = report.aiCreditsLimit,
                   ![p].pc = IF InsufficientCredits(report, ai[p].creditsRequired)
                             THEN "done" ELSE "create",
                   ![p].outcome = IF InsufficientCredits(report, ai[p].creditsRequired)
                                  THEN "PaymentRequired" ELSE Null]
    /\ UNCHANGED <<svcVars, regVars, tenants, usage, aiRequests, month, nextAiId, calls, ledger>>

\* const aiRequest = await this.prisma.aiRequest.create({ ... PROCESSING ... })
CreateRequest(p) ==
    /\ ai[p].pc = "create"
    /\ aiRequests' = aiRequests \cup
           {[id |-> nextAiId, tenantId |-> ai[p].tenantId, type |-> ai[p].type,
             status |-> PROCESSING, creditsUsed |-> ai[p].creditsRequired,
             output |-> Null, errorMessage |-> Null,
             updates |-> 0]}
    /\ nextAiId' = nextAiId + 1
    /\ ai' = [ai EXCEPT ![p].pc = "call", ![p].rowId = nextAiId]
    /\ UNCHANGED <<svcVars, regVars, tenants, usage, month, calls, ledger>>

\* await this.openai.chat.completions.create(...): returns a completion
ModelReturns(p) ==
    /\ ai[p].pc = "call"
    /\ ai' = [ai EXCEPT ![p].pc = "update", ![p].model = "returned"]
    /\ UNCHANGED <<svcVars, regVars, tenants, usage, aiRequests, month, nextAiId, calls, ledger>>

\* await this.openai.chat.completions.create(...): throws
ModelThrows(p) ==
    /\ ai[p].pc = "call"
    /\ ai' = [ai EXCEPT ![p].pc = "catch", ![p].model = "threw",
                        ![p].error = "OpenAI API Error"]
    /\ UNCHANGED <<svcVars, regVars, tenants, usage, aiRequests, month, nextAiId, calls, ledger>>

\* await this.prisma.aiRequest.update({ ... COMPLETED ... })
UpdateCompleted(p) ==
    /\ ai[p].pc = "update"
    /\ aiRequests' = AiRequestUpdate(aiRequests, ai[p].rowId, COMPLETED, "output", Null)
    /\ ai' = [ai EXCEPT ![p].pc = "increment"]
    /\ UNCHANGED <<svcVars, regVars, tenants, usage, month, nextAiId, calls, ledger>>

\* await this.tenantsService.incrementUsage(tenantId, creditsRequired, 1), and the
\* return of the response
IncrementUsage(p) ==
    /\ ai[p].pc = "increment"
    /\ usage' = UsageUpsert(usage, ai[p].tenantId, month, ai[p].creditsRequired, 1)
    /\ ledger' = [ledger EXCEPT ![<<ai[p].tenantId, month>>] =
                     [credits |-> @.credits + ai[p].creditsRequired,
                      requests |-> @.requests + 1]]
    /\ ai' = [ai EXCEPT ![p].pc = "done", ![p].outcome = "ok",
                        ![p].creditsUsed = ai[p].creditsRequired,
                        ![p].charged = CreditsIn(usage', ai[p].tenantId, month)
                                       - CreditsIn(usage, ai[p].tenantId, month),
                        ![p].requests = RequestsIn(usage', ai[p].tenantId, month)
                                        - RequestsIn(usage, ai[p].tenantId, month)]
    /\ UNCHANGED <<svcVars, regVars, tenants, aiRequests, month, nextAiId, calls>>

\* A catch block that records the failure and swallows the error.
CatchUpdateSwallows(p) ==
    /\ ai[p].pc = "catch"
    /\ aiRequests' = AiRequestUpdate(aiRequests, ai[p].rowId, FAILED, Null, ai[p].error)
    /\ ai' = [ai EXCEPT ![p].pc = "done", ![p].outcome = "ok"]
    /\ UNCHANGED <<svcVars, regVars, tenants, usage, month, nextAiId, calls, ledger>>

\* catch: await this.prisma.aiRequest.update({ ... FAILED ... }); throw BadRequest
CatchUpdate(p) ==
    /\ ai[p].pc = "catch"
    /\ aiRequests' = AiRequestUpdate(aiRequests, ai[p].rowId, FAILED, Null, ai[p].error)
    /\ ai' = [ai EXCEPT ![p].pc = "done", ![p].outcome = "BadRequest"]
    /\ UNCHANGED <<svcVars, regVars, tenants, usage, month, nextAiId, calls, ledger>>

\* The response (or the exception) has been delivered; the process is free again.
Return(p) ==
    /\ ai[p].pc = "done"
    /\ ai' = [ai EXCEPT ![p] = IdleAi]
    /\ UNCHANGED <<svcVars, regVars, tenants, usage, aiRequests, month, nextAiId, calls, ledger>>

\* The calendar month changes.
Tick ==
    /\ month < MaxMonth
    /\ month' = month + 1
    /\ UNCHANGED <<svcVars, regVars, tenants, usage, aiRequests, nextAiId, calls, ledger, ai>>

\* ------------------------------------------------------------- strings
\* A string is a sequence of one-character strings.
LowerLetters ==
    <<"a", "b", "c", "d", "e", "f", "g", "h", "i", "j", "k", "l", "m",
      "n", "o", "p", "q", "r", "s", "t", "u", "v", "w", "x", "y", "z">>

UpperLetters ==
    <<"A", "B", "C", "D", "E", "F", "G", "H", "I", "J", "K", "L", "M",
      "N", "O", "P", "Q", "R", "S", "T", "U", "V", "W", "X", "Y", "Z">>

Digits == {"0", "1", "2", "3", "4", "5", "6", "7", "8", "9"}

\* The characters of the inputs that the regular expression class \s matches.
Whitespace == {" ", "\t"}

Range(f) == {f[i] : i \in DOMAIN f}

\* String.prototype.toLowerCase, one character
LowerChar(c) ==
    IF c \in Range(UpperLetters)
    THEN LowerLetters[CHOOSE i \in DOMAIN UpperLetters : UpperLetters[i] = c]
    ELSE c

toLowerCase(str) == [i \in DOMAIN str |-> LowerChar(str[i])]

\* .replace(/[^a-z0-9\s-]/g, '')
StripInvalid(str) ==
    LET Keep(c) == c \in Range(LowerLetters) \cup Digits \cup Whitespace \cup {"-"}
    IN SelectSeq(str, Keep)

\* String.prototype.trim
trim(str) ==
    LET idx == {i \in DOMAIN str : str[i] \notin Whitespace}
    IN IF idx = {} THEN <<>>
       ELSE SubSeq(str, CHOOSE i \in idx : \A j \in idx : i <= j,
                        CHOOSE i \in idx : \A j \in idx : i >= j)

\* .replace(/[\s-]+/g, '-'): every maximal run of whitespace and hyphens becomes
\* one hyphen.
RECURSIVE CollapseSeparators(_)
CollapseSeparators(str) ==
    IF str = <<>> THEN <<>>
    ELSE IF Head(str) \in Whitespace \cup {"-"}
         THEN IF Len(str) > 1 /\ str[2] \in Whitespace \cup {"-"}
              THEN CollapseSeparators(Tail(str))
              ELSE <<"-">> \o CollapseSeparators(Tail(str))
         ELSE <<Head(str)>> \o CollapseSeparators(Tail(str))

\* .substring(0, 50)
MaxSlugLength == 50

substring(str, n) == SubSeq(str, 1, IF Len(str) < n THEN Len(str) ELSE n)

\* A slug derivation that keeps the punctuation of the name.
generateSlugKeepsPunctuation(name) ==
    substring(CollapseSeparators(trim(toLowerCase(name))), MaxSlugLength)

\* AuthService.generateSlug
generateSlug(name) ==
    substring(CollapseSeparators(trim(StripInvalid(toLowerCase(name)))), MaxSlugLength)

\* ---------------------------------------------------------- registration
\* Bounds: register invocations and updateTenant invocations in one behaviour.
MaxRegCalls == 2

MaxUpdates == 1

AcmeInc == <<"A", "c", "m", "e", " ", "I", "n", "c">>

AcmeIncBang == <<"A", "c", "m", "e", " ", "I", "n", "c", "!", "!">>

AcmeIncSlug == <<"a", "c", "m", "e", "-", "i", "n", "c">>

\* A name one character longer than a slug may be, and the longest slug.
LongNameA == [i \in 1..51 |-> "a"]

LongSlug == [i \in 1..50 |-> "a"]

\* RegisterDto.tenantName values tried
TenantNames == {AcmeInc, AcmeIncBang, LongNameA}

\* RegisterDto.email values tried
Emails == {"ann@example.com", "bob@example.com"}

\* UpdateTenantDto values tried; <<>> is a field left out.
UpdateData ==
    {[name |-> <<>>, slug |-> AcmeIncSlug],
     [name |-> <<>>, slug |-> LongSlug]}

IdleReg ==
    [pc |-> "idle", id |-> 0, email |-> Null, tenantName |-> <<>>, slug |-> <<>>,
     emailUsed |-> FALSE, emailSeen |-> FALSE, slugSeen |-> FALSE, outcome |-> Null, message |-> Null,
     failedAt |-> Null]

\* usersService.findByEmail / tenantsService.findBySlug: committed rows only
findByEmail(email) == {u \in users : u.email = email /\ u.tx = Committed}

findBySlug(slug) == {t \in tenants : t.slug = slug /\ t.tx = Committed}

\* Statements that are not wrapped in a transaction: each row is committed as it is
\* written.
TxOfNone(p) == Committed

\* this.prisma.$transaction(async (tx) => ...): the rows the callback writes belong
\* to the transaction of the invocation until it commits.
TxOf(p) == p

\* A unique index: an insert (or update) of `key` fails when a committed row holds
\* it, and waits while another transaction's uncommitted row holds it.
UniqueViolation(keys, key) == key \in keys

Held(rows, p) == {r \in rows : r.tx # Committed /\ r.tx # p}

Visible(rows) == {r \in rows : r.tx = Committed}

\* ROLLBACK and COMMIT of the transaction of p, on one table
Rollback(rows, p) == {r \in rows : r.tx # p}

Commit(rows, p) == {IF r.tx = p THEN [r EXCEPT !.tx = Committed] ELSE r : r \in rows}

\* register, up to its first await
register(p, email, tenantName) ==
    /\ reg[p].pc = "idle"
    /\ regCalls < MaxRegCalls
    /\ regCalls' = regCalls + 1
    /\ reg' = [reg EXCEPT ![p] = [IdleReg EXCEPT !.pc = "findByEmail",
                                                  !.id = regCalls + 1,
                                                  !.email = email,
                                                  !.emailUsed = findByEmail(email) # {},
                                                  !.tenantName = tenantName]]
    /\ UNCHANGED <<svcVars, aiVars, tenants, users, teamMembers, subscriptions, updates>>

\* A register that derives the slug without looking the email up.
RegFindByEmailSkipsLookup(p) ==
    /\ reg[p].pc = "findByEmail"
    /\ reg' = [reg EXCEPT ![p].pc = "findBySlug",
                          ![p].slug = generateSlug(reg[p].tenantName)]
    /\ UNCHANGED <<svcVars, aiVars, tenants, users, teamMembers, subscriptions, regCalls, updates>>

\* const existingUser = await this.usersService.findByEmail(...); if found, Conflict;
\* otherwise the slug is derived and findBySlug is awaited.
RegFindByEmail(p) ==
    /\ reg[p].pc = "findByEmail"
    /\ IF findByEmail(reg[p].email) # {}
       THEN reg' = [reg EXCEPT ![p].pc = "done", ![p].outcome = "Conflict",
                               ![p].emailSeen = TRUE,
                               ![p].message = "User with this email already exists"]
       ELSE reg' = [reg EXCEPT ![p].pc = "findBySlug",
                               ![p].slug = generateSlug(reg[p].tenantName)]
    /\ UNCHANGED <<svcVars, aiVars, tenants, users, teamMembers, subscriptions, regCalls, updates>>

\* const existingTenant = await this.tenantsService.findBySlug(tenantSlug); if found,
\* Conflict; otherwise the password is hashed and the transaction is opened.
RegFindBySlug(p) ==
    /\ reg[p].pc = "findBySlug"
    /\ IF findBySlug(reg[p].slug) # {}
       THEN reg' = [reg EXCEPT ![p].pc = "done", ![p].outcome = "Conflict",
                               ![p].slugSeen = TRUE,
                               ![p].message = "Organization name is already taken"]
       ELSE reg' = [reg EXCEPT ![p].pc = "txTenant"]
    /\ UNCHANGED <<svcVars, aiVars, tenants, users, teamMembers, subscriptions, regCalls, updates>>

\* A statement of the transaction was rejected: the transaction is rolled back and
\* the catch block of register throws Conflict('Registration failed').
RegAbort(p, at) ==
    /\ tenants' = Rollback(tenants, p)
    /\ users' = Rollback(users, p)
    /\ teamMembers' = Rollback(teamMembers, p)
    /\ subscriptions' = Rollback(subscriptions, p)
    /\ reg' = [reg EXCEPT ![p].pc = "done", ![p].outcome = "Conflict",
                          ![p].message = "Registration failed", ![p].failedAt = at]

\* await tx.tenant.create({ ... })
TxTenantCreate(p) ==
    /\ reg[p].pc = "txTenant"
    /\ \A t \in Held(tenants, p) : t.slug # reg[p].slug
    /\ IF UniqueViolation({t.slug : t \in Visible(tenants)}, reg[p].slug)
       THEN RegAbort(p, "tenant")
       ELSE /\ tenants' = tenants \cup
                  {[id |-> reg[p].id, name |-> reg[p].tenantName, slug |-> reg[p].slug,
                    plan |-> "free", isActive |-> TRUE,
                    settings |-> [aiCreditsLimit |-> 100, apiRateLimit |-> 10],
                    tx |-> TxOf(p)]}
            /\ reg' = [reg EXCEPT ![p].pc = "txUser"]
            /\ UNCHANGED <<users, teamMembers, subscriptions>>
    /\ UNCHANGED <<svcVars, aiVars, regCalls, updates>>

\* await tx.user.create({ ... })
TxUserCreate(p) ==
    /\ reg[p].pc = "txUser"
    /\ \A u \in Held(users, p) : u.email # reg[p].email
    /\ IF UniqueViolation({u.email : u \in Visible(users)}, reg[p].email)
       THEN RegAbort(p, "user")
       ELSE /\ users' = users \cup
                  {[id |-> reg[p].id, email |-> reg[p].email, role |-> "admin",
                    tenantId |-> reg[p].id, isActive |-> TRUE, tx |-> TxOf(p)]}
            /\ reg' = [reg EXCEPT ![p].pc = "txTeamMember"]
            /\ UNCHANGED <<tenants, teamMembers, subscriptions>>
    /\ UNCHANGED <<svcVars, aiVars, regCalls, updates>>

\* await tx.teamMember.create({ ... })
TxTeamMemberCreate(p) ==
    /\ reg[p].pc = "txTeamMember"
    /\ teamMembers' = teamMembers \cup
           {[id |-> reg[p].id, userId |-> reg[p].id, tenantId |-> reg[p].id,
             role |-> "admin", invitedBy |-> reg[p].id, tx |-> TxOf(p)]}
    /\ reg' = [reg EXCEPT ![p].pc = "txSubscription"]
    /\ UNCHANGED <<svcVars, aiVars, tenants, users, subscriptions, regCalls, updates>>

\* await tx.subscription.create({ ... })
TxSubscriptionCreate(p) ==
    /\ reg[p].pc = "txSubscription"
    /\ subscriptions' = subscriptions \cup
           {[id |-> reg[p].id, tenantId |-> reg[p].id, plan |-> "free",
             status |-> "ACTIVE", tx |-> TxOf(p)]}
    /\ reg' = [reg EXCEPT ![p].pc = "txCommit"]
    /\ UNCHANGED <<svcVars, aiVars, tenants, users, teamMembers, regCalls, updates>>

\* The callback returns and the transaction commits; the tokens are signed
\* (synchronously) and the response is returned.
TxCommit(p) ==
    /\ reg[p].pc = "txCommit"
    /\ tenants' = Commit(tenants, p)
    /\ users' = Commit(users, p)
    /\ teamMembers' = Commit(teamMembers, p)
    /\ subscriptions' = Commit(subscriptions, p)
    /\ reg' = [reg EXCEPT ![p].pc = "done", ![p].outcome = "ok"]
    /\ UNCHANGED <<svcVars, aiVars, regCalls, updates>>

\* A statement of the transaction is rejected by the database (connection lost, the
\* transaction timed out while waiting).
TxStatementThrows(p) ==
    /\ reg[p].pc \in {"txTenant", "txUser", "txTeamMember", "txSubscription", "txCommit"}
    /\ RegAbort(p, reg[p].pc)
    /\ UNCHANGED <<svcVars, aiVars, regCalls, updates>>

RegReturn(p) ==
    /\ reg[p].pc = "done"
    /\ reg' = [reg EXCEPT ![p] = IdleReg]
    /\ UNCHANGED <<svcVars, aiVars, tenants, users, teamMembers, subscriptions, regCalls, updates>>

\* An update statement that no unique index stops.
updateTenantOverwrites(id, data) ==
    /\ updates < MaxUpdates
    /\ updates' = updates + 1
    /\ findById(id) # {}
    /\ tenants' =
          {IF t.id = id /\ t.tx = Committed
           THEN [t EXCEPT !.name = IF data.name = <<>> THEN @ ELSE data.name,
                          !.slug = IF data.slug = <<>> THEN @ ELSE data.slug]
           ELSE t : t \in tenants}
    /\ UNCHANGED <<svcVars, aiVars, users, teamMembers, subscriptions, regCalls, reg>>

\* TenantsService.updateTenant(id, data): findById, then prisma.tenant.update. A
\* tenant is never deleted, so the row findById returned is still there when the
\* update statement runs. A slug held by a committed row of another tenant makes
\* the statement fail; nothing is written then.
updateTenant(id, data) ==
    /\ updates < MaxUpdates
    /\ updates' = updates + 1
    /\ findById(id) # {}
    /\ \A t \in Held(tenants, Committed) : t.slug # data.slug
    /\ IF /\ data.slug # <<>>
          /\ UniqueViolation({t.slug : t \in {r \in Visible(tenants) : r.id # id}},
                             data.slug)
       THEN UNCHANGED tenants
       ELSE tenants' =
              {IF t.id = id /\ t.tx = Committed
               THEN [t EXCEPT !.name = IF data.name = <<>> THEN @ ELSE data.name,
                              !.slug = IF data.slug = <<>> THEN @ ELSE data.slug]
               ELSE t : t \in tenants}
    /\ UNCHANGED <<svcVars, aiVars, users, teamMembers, subscriptions, regCalls, reg>>

InitReg ==
    /\ tenants = {}
    /\ users = {}
    /\ teamMembers = {}
    /\ subscriptions = {}
    /\ regCalls = 0
    /\ updates = 0
    /\ reg = [p \in RegProcs |-> IdleReg]
    /\ usage = {}
    /\ aiRequests = {}
    /\ month = 1
    /\ nextAiId = 1
    /\ calls = 0
    /\ ledger = << >>
    /\ ai = [p \in AiProcs |-> IdleAi]
    /\ NoAuth
    /\ NoHooks
    /\ NoQa
    /\ NoBill

NextReg ==
    \/ \E p \in RegProcs, e \in Emails, n \in TenantNames : register(p, e, n)
    \/ \E p \in RegProcs : RegFindByEmail(p)
    \/ \E p \in RegProcs : RegFindBySlug(p)
    \/ \E p \in RegProcs : TxTenantCreate(p)
    \/ \E p \in RegProcs : TxUserCreate(p)
    \/ \E p \in RegProcs : TxTeamMemberCreate(p)
    \/ \E p \in RegProcs : TxSubscriptionCreate(p)
    \/ \E p \in RegProcs : TxCommit(p)
    \/ \E p \in RegProcs : TxStatementThrows(p)
    \/ \E p \in RegProcs : RegReturn(p)
    \/ \E id \in 1..MaxRegCalls, d \in UpdateData : updateTenant(id, d)

SpecReg == InitReg /\ [][NextReg]_vars

\* ----------------------------------------------------- AI gateway: Init
\* Stored aiCreditsLimit values of the first tenant: unset by an update (0 reads as
\* the default), a custom limit.
InitLimits == {0, 60}

\* apiRequestsCount of a row holding `used` credits made of 2- and 3-credit calls.
RequestsFor(used) ==
    IF used % SummarizationCredits = 0 THEN used \div SummarizationCredits
    ELSE (used - DocumentQaCredits) \div SummarizationCredits + 1

TenantRow(id, limit) ==
    [id |-> id, slug |-> <<>>, name |-> <<>>, plan |-> "free", isActive |-> TRUE,
     settings |-> [aiCreditsLimit |-> limit, apiRateLimit |-> DefaultRateLimit],
     tx |-> Committed]

InitAi ==
    /\ \E limit \in InitLimits :
         /\ tenants = {TenantRow(1, limit)}
         /\ \/ usage = {}
            \/ \E slack \in 0..MaxSlack :
                 LET used == OrDefault(limit, DefaultCreditsLimit) - slack
                 IN /\ used # 1
                    /\ usage = {[tenantId |-> 1, month |-> 1, aiCreditsUsed |-> used,
                                 apiRequestsCount |-> RequestsFor(used)]}
    /\ ledger = [k \in TenantIds \X (1..MaxMonth) |->
                   [credits |-> CreditsIn(usage, k[1], k[2]),
                    requests |-> RequestsIn(usage, k[1], k[2])]]
    /\ aiRequests = {}
    /\ month = 1
    /\ nextAiId = 1
    /\ calls = 0
    /\ ai = [p \in AiProcs |-> IdleAi]
    /\ users = {}
    /\ teamMembers = {}
    /\ subscriptions = {}
    /\ regCalls = 0
    /\ updates = 0
    /\ reg = [p \in RegProcs |-> IdleReg]
    /\ NoAuth
    /\ NoHooks
    /\ NoQa
    /\ NoBill

NextAi ==
    \/ \E p \in AiProcs, t \in TenantIds : summarizeText(p, t)
    \/ \E p \in AiProcs, t \in TenantIds : answerQuestion(p, t)
    \/ \E p \in AiProcs : GetTenant(p)
    \/ \E p \in AiProcs : CheckCredits(p)
    \/ \E p \in AiProcs : CreateRequest(p)
    \/ \E p \in AiProcs : ModelReturns(p)
    \/ \E p \in AiProcs : ModelThrows(p)
    \/ \E p \in AiProcs : UpdateCompleted(p)
    \/ \E p \in AiProcs : IncrementUsage(p)
    \/ \E p \in AiProcs : CatchUpdate(p)
    \/ \E p \in AiProcs : Return(p)
    \/ Tick

SpecAi == InitAi /\ [][NextAi]_vars

\* ------------------------------------------- AI gateway: persistence faults
\* A database statement may be rejected (connection lost, timeout): the awaited
\* promise rejects and nothing is written.

\* prisma.aiRequest.create rejects: outside the try block, the error propagates.
CreateRequestThrows(p) ==
    /\ ai[p].pc = "create"
    /\ ai' = [ai EXCEPT ![p].pc = "done", ![p].outcome = "DbError"]
    /\ UNCHANGED <<svcVars, regVars, tenants, usage, aiRequests, month, nextAiId, calls, ledger>>

\* prisma.aiRequest.update({ ... COMPLETED ... }) rejects: control enters catch.
UpdateCompletedThrows(p) ==
    /\ ai[p].pc = "update"
    /\ ai' = [ai EXCEPT ![p].pc = "catch", ![p].error = "db error"]
    /\ UNCHANGED <<svcVars, regVars, tenants, usage, aiRequests, month, nextAiId, calls, ledger>>

\* tenantsService.incrementUsage rejects: control enters catch.
IncrementUsageThrows(p) ==
    /\ ai[p].pc = "increment"
    /\ ai' = [ai EXCEPT ![p].pc = "catch", ![p].error = "db error"]
    /\ UNCHANGED <<svcVars, regVars, tenants, usage, aiRequests, month, nextAiId, calls, ledger>>

\* catch: prisma.aiRequest.update({ ... FAILED ... }) rejects: the error propagates
\* in place of BadRequest.
CatchUpdateThrows(p) ==
    /\ ai[p].pc = "catch"
    /\ ai' = [ai EXCEPT ![p].pc = "done", ![p].outcome = "DbError"]
    /\ UNCHANGED <<svcVars, regVars, tenants, usage, aiRequests, month, nextAiId, calls, ledger>>

NextAiFault ==
    \/ NextAi
    \/ \E p \in AiProcs : CreateRequestThrows(p)
    \/ \E p \in AiProcs : UpdateCompletedThrows(p)
    \/ \E p \in AiProcs : IncrementUsageThrows(p)
    \/ \E p \in AiProcs : CatchUpdateThrows(p)


SpecAiFault == InitAi /\ [][NextAiFault]_vars

\* ---------------------------------------------------- AI gateway: claims
\* The AiRequest row an invocation created (empty before CreateRequest).
RowOf(p) == {r \in aiRequests : r.id = ai[p].rowId}

\* The invocation of p has evaluated the comparison of checkCredits.
Checked(p) == ai[p].pc \notin {"idle", "getTenant", "getUsage"} /\ ai[p].outcome # "NotFound"

\* C1: an invocation whose credit check found aiCreditsUsed + creditsRequired above
\* aiCreditsLimit has failed with PaymentRequired, has not called the external
\* model, has created no AiRequest row and has not changed the Usage counters.
C1_InsufficientCreditsRejected ==
    \A p \in AiProcs :
        (Checked(p) /\ ai[p].usedRead + AI_SERVICE_CREDITS(ai[p].type) > ai[p].limitSeen)
        => /\ ai[p].pc = "done"
           /\ ai[p].outcome = "PaymentRequired"
           /\ ai[p].model = Null
           /\ RowOf(p) = {}
           /\ ai[p].charged = 0
           /\ ai[p].requests = 0

\* Usage at limit - 1 and a 2-credit summarization: rejected.
C1_Witness ==
    \E p \in AiProcs :
        /\ ai[p].pc = "done"
        /\ ai[p].outcome = "PaymentRequired"
        /\ ai[p].type = TEXT_SUMMARIZATION
        /\ ai[p].usedRead = ai[p].limitSeen - 1

\* C2: an invocation that passed the credit check and whose model call returned ends
\* with its AiRequest row completed, the Usage row raised by exactly the fixed cost
\* (2 for summarization, 3 for Q&A) and by exactly 1 request, and creditsUsed equal
\* to that cost in the response.
C2_SuccessChargesFixedCost ==
    \A p \in AiProcs :
        (ai[p].pc = "done" /\ ai[p].model = "returned")
        => /\ ai[p].outcome = "ok"
           /\ \A r \in RowOf(p) : r.status = COMPLETED
           /\ RowOf(p) # {}
           /\ ai[p].charged = (IF ai[p].type = TEXT_SUMMARIZATION THEN 2 ELSE 3)
           /\ ai[p].requests = 1
           /\ ai[p].creditsUsed = ai[p].charged

\* A Q&A call that was charged on top of an existing Usage row.
C2_Witness ==
    \E p \in AiProcs :
        /\ ai[p].pc = "done"
        /\ ai[p].outcome = "ok"
        /\ ai[p].type = DOCUMENT_QA
        /\ ai[p].charged = 3
        /\ CreditsIn(usage, ai[p].tenantId, month) > 3

\* C3: an invocation whose model call threw ends with its AiRequest row failed with
\* an error message, BadRequest for the caller, and no change of the Usage counters
\* by this invocation.
C3_FailedCallNotCharged ==
    \A p \in AiProcs :
        (ai[p].pc = "done" /\ ai[p].model = "threw")
        => /\ ai[p].outcome = "BadRequest"
           /\ RowOf(p) # {}
           /\ \A r \in RowOf(p) : r.status = FAILED /\ r.errorMessage # Null
           /\ ai[p].charged = 0
           /\ ai[p].requests = 0

C3_Witness ==
    \E p \in AiProcs :
        /\ ai[p].pc = "done"
        /\ ai[p].model = "threw"
        /\ \E r \in RowOf(p) : r.status = FAILED

\* C4: the status of an AiRequest row only moves processing -> completed or
\* processing -> failed; a completed or failed row never changes status again, and
\* a row is updated exactly once after its creation.
C4_StatusTerminal ==
    [][\A r \in aiRequests : \A s \in aiRequests' :
          s.id = r.id =>
             /\ (r.status \in {COMPLETED, FAILED} => s.status = r.status)
             /\ s.updates <= 1]_vars

\* C5: every invocation that incremented the usage had found
\* aiCreditsUsed + creditsRequired <= aiCreditsLimit in its own credit check (the
\* check is per invocation; C5_Witness is the joint overshoot).
C5_ChargedOnlyAfterOwnCheck ==
    \A p \in AiProcs :
        ai[p].charged > 0 => ai[p].usedRead + ai[p].creditsRequired <= ai[p].limitSeen

\* Two requests of one tenant, both within the limit when they started, both passed
\* the check, both completed, and the tenant's usage is above its limit.
C5_Witness ==
    \E p, q \in AiProcs :
        /\ p # q
        /\ ai[p].tenantId = ai[q].tenantId
        /\ ai[p].pc = "done" /\ ai[p].outcome = "ok" /\ ai[p].startOk
        /\ ai[q].pc = "done" /\ ai[q].outcome = "ok" /\ ai[q].startOk
        /\ \A r \in RowOf(p) \cup RowOf(q) : r.status = COMPLETED
        /\ CurrentReport(ai[p].tenantId).aiCreditsUsed
             > CurrentReport(ai[p].tenantId).aiCreditsLimit

\* C6: there is at most one Usage row per (tenantId, month), a row exists only once
\* an increment of that month has completed, each row holds the sum of the completed
\* increments of its month, and no counter of a row decreases.
UsageRowsUnique ==
    \A u, v \in usage : (u.tenantId = v.tenantId /\ u.month = v.month) => u = v

UsageMatchesLedger ==
    /\ \A k \in DOMAIN ledger :
          /\ CreditsIn(usage, k[1], k[2]) = ledger[k].credits
          /\ RequestsIn(usage, k[1], k[2]) = ledger[k].requests
    /\ \A u \in usage : <<u.tenantId, u.month>> \in DOMAIN ledger
                        /\ ledger[<<u.tenantId, u.month>>].requests > 0

UsageMonotone ==
    \A u \in usage : \E v \in usage' :
        /\ v.tenantId = u.tenantId /\ v.month = u.month
        /\ v.aiCreditsUsed >= u.aiCreditsUsed
        /\ v.apiRequestsCount >= u.apiRequestsCount

C6_UsageRowSumsIncrements ==
    [](UsageRowsUnique /\ UsageMatchesLedger) /\ [][UsageMonotone]_vars

\* Two increments of one month have completed concurrently-started requests and
\* the row of the month holds both.
C6_Witness ==
    /\ \A p \in AiProcs : ai[p].pc = "done" /\ ai[p].outcome = "ok"
    /\ \E u \in usage : u.month = 2 /\ u.apiRequestsCount = 2
    /\ Cardinality(usage) = 1

\* ---------------------------------------------------- registration: claims
\* The invocation of p has written no row, committed or not, to any table.
WroteNothing(p) ==
    /\ \A t \in tenants : t.id # reg[p].id
    /\ \A u \in users : u.id # reg[p].id
    /\ \A m \in teamMembers : m.id # reg[p].id
    /\ \A s \in subscriptions : s.id # reg[p].id

\* The rows of registration `id` that other operations can read.
VisibleRows(rows, id) == {r \in Visible(rows) : r.id = id}

\* The slugs of the names tried, written out by hand.
ExpectedSlug(name) ==
    CASE name = AcmeInc -> AcmeIncSlug
      [] name = AcmeIncBang -> AcmeIncSlug
      [] name = LongNameA -> LongSlug

\* C7: a register call whose email was already used by a User when the call was
\* made fails with Conflict ('User with this email already exists') and writes no
\* Tenant, User, TeamMember or Subscription row.
C7_UsedEmailRejected ==
    \A p \in RegProcs :
        reg[p].emailUsed
        => /\ reg[p].pc \in {"findByEmail", "done"}
           /\ reg[p].pc = "done"
                => /\ reg[p].outcome = "Conflict"
                   /\ reg[p].message = "User with this email already exists"
           /\ WroteNothing(p)

\* A registration was turned away for its email, which a committed User holds.
C7_Witness ==
    \E p \in RegProcs :
        /\ reg[p].emailUsed
        /\ reg[p].pc = "done"
        /\ reg[p].outcome = "Conflict"
        /\ \E u \in Visible(users) : u.email = reg[p].email

\* C8: the slug register derives is the lowercased name without the characters
\* outside a-z, 0-9, whitespace and hyphen, trimmed, with runs of whitespace and
\* hyphens collapsed to one hyphen, cut to 50 characters ("Acme Inc" and
\* "Acme Inc!!" both give acme-inc); a register call whose lookup finds a tenant
\* with the derived slug fails with Conflict and writes no row.
C8_SlugCollisionRejected ==
    \A p \in RegProcs :
        /\ (reg[p].slug # <<>> \/ reg[p].slugSeen
               \/ reg[p].pc \in {"findBySlug", "txTenant", "txUser", "txTeamMember",
                                  "txSubscription", "txCommit"})
             => /\ reg[p].slug = ExpectedSlug(reg[p].tenantName)
                /\ Len(reg[p].slug) <= 50
        /\ reg[p].slugSeen
             => /\ reg[p].pc = "done"
                /\ reg[p].outcome = "Conflict"
                /\ reg[p].message = "Organization name is already taken"
                /\ WroteNothing(p)

\* "Acme Inc" is registered with slug acme-inc and a registration of "Acme Inc!!"
\* has been turned away for its slug.
C8_Witness ==
    \E p \in RegProcs :
        /\ reg[p].tenantName = AcmeIncBang
        /\ reg[p].slugSeen
        /\ reg[p].outcome = "Conflict"
        /\ \E t \in Visible(tenants) : t.name = AcmeInc /\ t.slug = AcmeIncSlug

\* C9: among the rows other operations can read, a registration has either its
\* Tenant (free plan, aiCreditsLimit 100, apiRateLimit 10), its admin User, its
\* TeamMember and its free Subscription, or none of them; a registration one of
\* whose statements failed has no row at all.
C9_RegistrationAtomic ==
    /\ \A id \in 1..MaxRegCalls :
          \/ /\ VisibleRows(tenants, id) = {}
             /\ VisibleRows(users, id) = {}
             /\ VisibleRows(teamMembers, id) = {}
             /\ VisibleRows(subscriptions, id) = {}
          \/ /\ Cardinality(VisibleRows(tenants, id)) = 1
             /\ Cardinality(VisibleRows(users, id)) = 1
             /\ Cardinality(VisibleRows(teamMembers, id)) = 1
             /\ Cardinality(VisibleRows(subscriptions, id)) = 1
             /\ \A t \in VisibleRows(tenants, id) :
                   /\ t.plan = "free"
                   /\ t.settings.aiCreditsLimit = 100
                   /\ t.settings.apiRateLimit = 10
             /\ \A u \in VisibleRows(users, id) : u.role = "admin" /\ u.tenantId = id
             /\ \A m \in VisibleRows(teamMembers, id) : m.userId = id /\ m.tenantId = id
             /\ \A s \in VisibleRows(subscriptions, id) : s.plan = "free" /\ s.tenantId = id
    /\ \A p \in RegProcs :
          (reg[p].pc = "done" /\ reg[p].failedAt # Null)
          => reg[p].outcome = "Conflict" /\ WroteNothing(p)

\* One registration is committed with its four rows while another, which had
\* already created its Tenant, User and TeamMember, failed and left nothing.
C9_Witness ==
    /\ \E id \in 1..MaxRegCalls : VisibleRows(subscriptions, id) # {}
    /\ \E p \in RegProcs :
          /\ reg[p].pc = "done"
          /\ reg[p].failedAt = "txSubscription"
          /\ WroteNothing(p)

MaxAuthCalls == 2
\* Days the clock can reach.
MaxNow == 2

\* exp: Math.floor(Date.now() / 1000) + 24 * 60 * 60, in days
AccessTtl == 1
\* expiresIn: ... || '7d', in days
RefreshTtl == 7

AuthProcs == {"s1", "s2"}

UserIds == {1, 2, 3}

\* An id no User row has (a user that was removed from the table).
GoneUserId == 9

ADMIN == "admin"
USER == "user"

JwtSecret == "JWT_SECRET"
JwtRefreshSecret == "JWT_REFRESH_SECRET"

Password == "correct-password"
WrongPassword == "wrong-password"

Ann == "ann@example.com"
Bob == "bob@example.com"
Cat == "cat@example.com"
Nobody == "nobody@example.com"

\* bcrypt.hash and bcrypt.compare
hash(password) == <<"bcrypt", password>>

compare(password, hashed) == hashed = hash(password)

\* A User row as the users-service and login read it.
UserRow(id, email, role, tenantId, isActive) ==
    [id |-> id, email |-> email, password |-> hash(Password), name |-> "name",
     role |-> role, tenantId |-> tenantId, isActive |-> isActive, tx |-> Committed]

\* prisma.user.findUnique({ where: { id } })
findUserById(id) == {u \in users : u.id = id /\ u.tx = Committed}

\* jwtService.sign: the claims, the key that signed them and the expiry.
sign(sub, email, role, tenantId, secret, exp) ==
    [sub |-> sub, email |-> email, role |-> role, tenantId |-> tenantId,
     secret |-> secret, exp |-> exp, intact |-> TRUE]

\* The signature of a token checks out under `secret`.
Signed(token, secret) == token.intact /\ token.secret = secret

\* jwtService.verify(token, { secret }): signature and expiry
verify(token, secret) == Signed(token, secret) /\ now < token.exp

IdleAuth ==
    [pc |-> "idle", op |-> Null, email |-> Null, password |-> Null, user |-> {},
     token |-> {}, outcome |-> Null, message |-> Null,
     accessToken |-> {}, refreshToken |-> {},
     barred |-> FALSE, at |-> 0]

\* The account of `email` with `password` may not log in now: the user is inactive, or
\* its tenant is missing or inactive.
Barred(email, password) ==
    \E u \in findByEmail(email) :
        /\ compare(password, u.password)
        /\ \/ ~u.isActive
           \/ \A t \in findById(u.tenantId) : ~t.isActive

\* login, up to the first await of validateUser
login(p, email, password) ==
    /\ auth[p].pc = "idle"
    /\ authCalls < MaxAuthCalls
    /\ authCalls' = authCalls + 1
    /\ auth' = [auth EXCEPT ![p] = [IdleAuth EXCEPT !.pc = "findByEmail", !.op = "login",
                                                    !.email = email,
                                                    !.password = password,
                                                    !.barred = Barred(email, password)]]
    /\ UNCHANGED <<qaVars, billVars, aiVars, regVars, hookVars, tenants, uops, now>>

\* validateUser: const user = await this.usersService.findByEmail(email)
LoginFindByEmail(p) ==
    /\ auth[p].pc = "findByEmail"
    /\ IF findByEmail(auth[p].email) = {}
       THEN auth' = [auth EXCEPT ![p].pc = "done", ![p].outcome = "Unauthorized",
                                 ![p].message = "Invalid credentials"]
       ELSE auth' = [auth EXCEPT ![p].pc = "compare",
                                 ![p].user = findByEmail(auth[p].email)]
    /\ UNCHANGED <<qaVars, billVars, aiVars, regVars, hookVars, tenants, uops, now, authCalls>>

\* A login that does not look at isActive.
LoginCompareIgnoresActive(p) ==
    /\ auth[p].pc = "compare"
    /\ LET user == CHOOSE u \in auth[p].user : TRUE
       IN IF ~compare(auth[p].password, user.password)
          THEN auth' = [auth EXCEPT ![p].pc = "done", ![p].outcome = "Unauthorized",
                                    ![p].message = "Invalid credentials"]
          ELSE auth' = [auth EXCEPT ![p].pc = "findTenant"]
    /\ UNCHANGED <<qaVars, billVars, aiVars, regVars, hookVars, tenants, uops, now, authCalls>>

\* validateUser: await bcrypt.compare(password, user.password); then the isActive
\* test of login on the row that was read.
LoginCompare(p) ==
    /\ auth[p].pc = "compare"
    /\ LET user == CHOOSE u \in auth[p].user : TRUE
       IN IF ~compare(auth[p].password, user.password)
          THEN auth' = [auth EXCEPT ![p].pc = "done", ![p].outcome = "Unauthorized",
                                    ![p].message = "Invalid credentials"]
          ELSE IF ~user.isActive
          THEN auth' = [auth EXCEPT ![p].pc = "done", ![p].outcome = "Unauthorized",
                                    ![p].message = "Account is deactivated"]
          ELSE auth' = [auth EXCEPT ![p].pc = "findTenant"]
    /\ UNCHANGED <<qaVars, billVars, aiVars, regVars, hookVars, tenants, uops, now, authCalls>>

\* const tenant = await this.tenantsService.findById(user.tenantId); the tokens are
\* signed and returned.
LoginFindTenant(p) ==
    /\ auth[p].pc = "findTenant"
    /\ LET user == CHOOSE u \in auth[p].user : TRUE
           tenant == findById(user.tenantId)
       IN IF tenant = {} \/ \E t \in tenant : ~t.isActive
          THEN auth' = [auth EXCEPT ![p].pc = "done", ![p].outcome = "Unauthorized",
                                    ![p].message = "Tenant is deactivated"]
          ELSE auth' = [auth EXCEPT
                          ![p].pc = "done", ![p].outcome = "ok",
                          ![p].accessToken =
                              {sign(user.id, user.email, user.role, user.tenantId,
                                    JwtSecret, now + AccessTtl)},
                          ![p].refreshToken =
                              {sign(user.id, Null, Null, 0,
                                    JwtRefreshSecret, now + RefreshTtl)}]
    /\ UNCHANGED <<qaVars, billVars, aiVars, regVars, hookVars, tenants, uops, now, authCalls>>

\* The response (or the exception) has been delivered.
AuthReturn(p) ==
    /\ auth[p].pc = "done"
    /\ auth' = [auth EXCEPT ![p] = IdleAuth]
    /\ UNCHANGED <<qaVars, billVars, aiVars, regVars, hookVars, tenants, uops, now, authCalls>>

\* A day passes.
Tock ==
    /\ now < MaxNow
    /\ now' = now + 1
    /\ UNCHANGED <<qaVars, billVars, aiVars, regVars, hookVars, tenants, auth, uops, authCalls>>


\* A refreshToken that decodes the token without verifying it.
refreshTokenDecodesOnly(p, token) ==
    /\ auth[p].pc = "idle"
    /\ authCalls < MaxAuthCalls
    /\ authCalls' = authCalls + 1
    /\ auth' = [auth EXCEPT ![p] = [IdleAuth EXCEPT !.pc = "findUser", !.op = "refresh",
                                                    !.token = {token}, !.at = now]]
    /\ UNCHANGED <<qaVars, billVars, aiVars, regVars, hookVars, tenants, uops, now>>

\* refreshToken: jwtService.verify (synchronous); a rejected token is caught and
\* Unauthorized is thrown.
refreshToken(p, token) ==
    /\ auth[p].pc = "idle"
    /\ authCalls < MaxAuthCalls
    /\ authCalls' = authCalls + 1
    /\ auth' = [auth EXCEPT ![p] =
                  IF verify(token, JwtRefreshSecret)
                  THEN [IdleAuth EXCEPT !.pc = "findUser", !.op = "refresh",
                                        !.token = {token}, !.at = now]
                  ELSE [IdleAuth EXCEPT !.pc = "done", !.op = "refresh",
                                        !.token = {token}, !.at = now,
                                        !.outcome = "Unauthorized",
                                        !.message = "Invalid refresh token"]]
    /\ UNCHANGED <<qaVars, billVars, aiVars, regVars, hookVars, tenants, uops, now>>

\* const user = await this.usersService.findById(payload.sub); the new access token
RefreshFindUser(p) ==
    /\ auth[p].pc = "findUser"
    /\ LET payload == CHOOSE t \in auth[p].token : TRUE
           user == findUserById(payload.sub)
       IN IF user = {}
          THEN auth' = [auth EXCEPT ![p].pc = "done", ![p].outcome = "Unauthorized",
                                    ![p].message = "Invalid refresh token"]
          ELSE auth' = [auth EXCEPT
                          ![p].pc = "done", ![p].outcome = "ok", ![p].user = user,
                          ![p].accessToken =
                              {sign(u.id, u.email, u.role, u.tenantId,
                                    JwtSecret, now + AccessTtl) : u \in user}]
    /\ UNCHANGED <<qaVars, billVars, aiVars, regVars, hookVars, tenants, uops, now, authCalls>>

\* ------------------------------------------------------- users service
UserProcs == {"o1", "o2"}

IdleUop ==
    [pc |-> "idle", op |-> Null, id |-> 0, tenantId |-> 0, currentUserRole |-> Null,
     data |-> [name |-> Null, role |-> Null], outcome |-> Null, message |-> Null]

\* prisma.user.update({ where: { id }, data }): the fields present in data are set.
UserUpdate(rows, id, data) ==
    {IF u.id = id /\ u.tx = Committed
     THEN [u EXCEPT !.name = IF data.name = Null THEN @ ELSE data.name,
                    !.role = IF data.role = Null THEN @ ELSE data.role]
     ELSE u : u \in rows}

\* prisma.user.update({ where: { id }, data: { isActive: false } })
UserDeactivate(rows, id) ==
    {IF u.id = id /\ u.tx = Committed THEN [u EXCEPT !.isActive = FALSE] ELSE u :
        u \in rows}

\* updateUser, up to its first await
updateUser(p, id, tenantId, currentUserRole, data) ==
    /\ uops[p].pc = "idle"
    /\ authCalls < MaxAuthCalls
    /\ authCalls' = authCalls + 1
    /\ uops' = [uops EXCEPT ![p] = [IdleUop EXCEPT !.pc = "findById", !.op = "updateUser",
                                                   !.id = id, !.tenantId = tenantId,
                                                   !.currentUserRole = currentUserRole,
                                                   !.data = data]]
    /\ UNCHANGED <<qaVars, billVars, aiVars, regVars, hookVars, tenants, auth, now>>

\* An updateUser that skips the tenant test.
UpdateUserFindAnyTenant(p) ==
    /\ uops[p].pc = "findById"
    /\ uops[p].op = "updateUser"
    /\ LET user == findUserById(uops[p].id)
       IN IF user = {}
          THEN uops' = [uops EXCEPT ![p].pc = "done", ![p].outcome = "NotFound",
                                    ![p].message = "User not found"]
          ELSE IF uops[p].data.role # Null /\ uops[p].currentUserRole # ADMIN
          THEN uops' = [uops EXCEPT ![p].pc = "done", ![p].outcome = "Forbidden",
                          ![p].message = "Only admins can change user roles"]
          ELSE uops' = [uops EXCEPT ![p].pc = "update"]
    /\ UNCHANGED <<qaVars, billVars, aiVars, regVars, hookVars, tenants, auth, now, authCalls>>

\* updateUser: const user = await this.findById(id) and the three tests that follow
UpdateUserFind(p) ==
    /\ uops[p].pc = "findById"
    /\ uops[p].op = "updateUser"
    /\ LET user == findUserById(uops[p].id)
       IN IF user = {}
          THEN uops' = [uops EXCEPT ![p].pc = "done", ![p].outcome = "NotFound",
                                    ![p].message = "User not found"]
          ELSE IF \E u \in user : u.tenantId # uops[p].tenantId
          THEN uops' = [uops EXCEPT ![p].pc = "done", ![p].outcome = "Forbidden",
                          ![p].message = "Cannot update user from different tenant"]
          ELSE IF uops[p].data.role # Null /\ uops[p].currentUserRole # ADMIN
          THEN uops' = [uops EXCEPT ![p].pc = "done", ![p].outcome = "Forbidden",
                          ![p].message = "Only admins can change user roles"]
          ELSE uops' = [uops EXCEPT ![p].pc = "update"]
    /\ UNCHANGED <<qaVars, billVars, aiVars, regVars, hookVars, tenants, auth, now, authCalls>>

\* updateUser: await this.prisma.user.update({ where: { id }, data: updateData })
UpdateUserWrite(p) ==
    /\ uops[p].pc = "update"
    /\ uops[p].op = "updateUser"
    /\ users' = UserUpdate(users, uops[p].id, uops[p].data)
    /\ uops' = [uops EXCEPT ![p].pc = "done", ![p].outcome = "ok"]
    /\ UNCHANGED <<qaVars, billVars, aiVars, hookVars, tenants, teamMembers, subscriptions, regCalls,
                   updates, reg, auth, now, authCalls>>

\* A deactivateUser that skips the role test.
deactivateUserAnyRole(p, id, tenantId, currentUserRole) ==
    /\ uops[p].pc = "idle"
    /\ authCalls < MaxAuthCalls
    /\ authCalls' = authCalls + 1
    /\ uops' = [uops EXCEPT ![p] =
                  [IdleUop EXCEPT !.pc = "findById", !.op = "deactivateUser",
                                  !.id = id, !.tenantId = tenantId,
                                  !.currentUserRole = currentUserRole]]
    /\ UNCHANGED <<qaVars, billVars, aiVars, regVars, hookVars, tenants, auth, now>>

\* deactivateUser, up to its first await: the role test comes first
deactivateUser(p, id, tenantId, currentUserRole) ==
    /\ uops[p].pc = "idle"
    /\ authCalls < MaxAuthCalls
    /\ authCalls' = authCalls + 1
    /\ uops' = [uops EXCEPT ![p] =
                  IF currentUserRole # ADMIN
                  THEN [IdleUop EXCEPT !.pc = "done", !.op = "deactivateUser",
                                       !.id = id, !.tenantId = tenantId,
                                       !.currentUserRole = currentUserRole,
                                       !.outcome = "Forbidden",
                                       !.message = "Only admins can deactivate users"]
                  ELSE [IdleUop EXCEPT !.pc = "findById", !.op = "deactivateUser",
                                       !.id = id, !.tenantId = tenantId,
                                       !.currentUserRole = currentUserRole]]
    /\ UNCHANGED <<qaVars, billVars, aiVars, regVars, hookVars, tenants, auth, now>>

\* deactivateUser: const user = await this.findById(id) and the two tests
DeactivateUserFind(p) ==
    /\ uops[p].pc = "findById"
    /\ uops[p].op = "deactivateUser"
    /\ LET user == findUserById(uops[p].id)
       IN IF user = {}
          THEN uops' = [uops EXCEPT ![p].pc = "done", ![p].outcome = "NotFound",
                                    ![p].message = "User not found"]
          ELSE IF \E u \in user : u.tenantId # uops[p].tenantId
          THEN uops' = [uops EXCEPT ![p].pc = "done", ![p].outcome = "Forbidden",
                          ![p].message = "Cannot deactivate user from different tenant"]
          ELSE uops' = [uops EXCEPT ![p].pc = "update"]
    /\ UNCHANGED <<qaVars, billVars, aiVars, regVars, hookVars, tenants, auth, now, authCalls>>

\* deactivateUser: await this.prisma.user.update({ ... data: { isActive: false } })
DeactivateUserWrite(p) ==
    /\ uops[p].pc = "update"
    /\ uops[p].op = "deactivateUser"
    /\ users' = UserDeactivate(users, uops[p].id)
    /\ uops' = [uops EXCEPT ![p].pc = "done", ![p].outcome = "ok"]
    /\ UNCHANGED <<qaVars, billVars, aiVars, hookVars, tenants, teamMembers, subscriptions, regCalls,
                   updates, reg, auth, now, authCalls>>

UopReturn(p) ==
    /\ uops[p].pc = "done"
    /\ uops' = [uops EXCEPT ![p] = IdleUop]
    /\ UNCHANGED <<qaVars, billVars, aiVars, regVars, hookVars, tenants, auth, now, authCalls>>


\* ------------------------------------------------- auth: specification
\* The other services have no invocation in flight.
NoAi ==
    /\ usage = {}
    /\ aiRequests = {}
    /\ month = 1
    /\ nextAiId = 1
    /\ calls = 0
    /\ ledger = << >>
    /\ ai = [p \in AiProcs |-> IdleAi]

NoReg ==
    /\ teamMembers = {}
    /\ regCalls = 0
    /\ updates = 0
    /\ reg = [p \in RegProcs |-> IdleReg]

\* Refresh tokens a client may present: issued for user 1 or for a user that is
\* gone, signed with the refresh key or with the access key, expiring after one day
\* or after seven, intact or tampered with.
RefreshInputs ==
    {sign(1, Null, Null, 0, JwtRefreshSecret, RefreshTtl),
     sign(1, Null, Null, 0, JwtRefreshSecret, 1),
     sign(GoneUserId, Null, Null, 0, JwtRefreshSecret, RefreshTtl),
     sign(1, Ann, ADMIN, 1, JwtSecret, RefreshTtl),
     [sign(1, Null, Null, 0, JwtRefreshSecret, RefreshTtl) EXCEPT !.intact = FALSE]}

\* One user, active or not, whose tenant is active, inactive or missing.
InitAuth ==
    /\ \E active \in BOOLEAN : users = {UserRow(1, Ann, ADMIN, 1, active)}
    /\ \/ tenants = {}
       \/ \E active \in BOOLEAN :
            tenants = {[TenantRow(1, DefaultCreditsLimit) EXCEPT !.isActive = active]}
    /\ subscriptions = {}
    /\ auth = [p \in AuthProcs |-> IdleAuth]
    /\ uops = [p \in UserProcs |-> IdleUop]
    /\ now = 0
    /\ authCalls = 0
    /\ NoAi
    /\ NoReg
    /\ NoHooks
    /\ NoQa
    /\ NoBill

NextAuth ==
    \/ \E p \in AuthProcs, e \in {Ann, Nobody}, pw \in {Password, WrongPassword} :
         login(p, e, pw)
    \/ \E p \in AuthProcs : LoginFindByEmail(p)
    \/ \E p \in AuthProcs : LoginCompare(p)
    \/ \E p \in AuthProcs : LoginFindTenant(p)
    \/ \E p \in AuthProcs, t \in RefreshInputs : refreshToken(p, t)
    \/ \E p \in AuthProcs : RefreshFindUser(p)
    \/ \E p \in AuthProcs : AuthReturn(p)
    \/ \E p \in UserProcs : deactivateUser(p, 1, 1, ADMIN)
    \/ \E p \in UserProcs : DeactivateUserFind(p)
    \/ \E p \in UserProcs : DeactivateUserWrite(p)
    \/ \E p \in UserProcs : UopReturn(p)
    \/ Tock

SpecAuth == InitAuth /\ [][NextAuth]_vars

\* ------------------------------------------------------- auth: claims
\* The tenant row that login would read for the user it holds.
TenantActive(u) == \E t \in findById(u.tenantId) : t.isActive

\* C11: a login whose account, at the call, had the right password but an inactive
\* user or an inactive or missing tenant issues no token and fails with
\* Unauthorized; a login that returned tokens read an active user with the right
\* password and an active tenant, and both tokens carry that user's id under a
\* valid signature; a login fails only for a missing user, a wrong
\* password, an inactive user or an inactive or missing tenant.
C11_LoginRequiresActiveAccount ==
    \A p \in AuthProcs :
        auth[p].op = "login"
        => /\ auth[p].barred
                => /\ auth[p].accessToken = {} /\ auth[p].refreshToken = {}
                   /\ auth[p].pc = "done" => auth[p].outcome = "Unauthorized"
           /\ auth[p].outcome = "ok"
                => /\ \A u \in auth[p].user :
                         /\ u.isActive
                         /\ compare(auth[p].password, u.password)
                         /\ TenantActive(u)
                         /\ \A t \in auth[p].accessToken \cup auth[p].refreshToken :
                                t.sub = u.id
                   /\ auth[p].user # {}
                   /\ \E t \in auth[p].accessToken : Signed(t, JwtSecret)
                   /\ \E t \in auth[p].refreshToken : Signed(t, JwtRefreshSecret)
           /\ (auth[p].pc = "done" /\ auth[p].outcome # "ok")
                => /\ auth[p].outcome = "Unauthorized"
                   /\ auth[p].accessToken = {} /\ auth[p].refreshToken = {}
                   /\ \/ auth[p].user = {}
                      \/ \E u \in auth[p].user :
                            \/ ~compare(auth[p].password, u.password)
                            \/ ~u.isActive
                            \/ ~TenantActive(u)

\* A login with the right password was refused because the user is deactivated.
C11_Witness ==
    \E p \in AuthProcs :
        /\ auth[p].op = "login"
        /\ auth[p].barred
        /\ auth[p].pc = "done"
        /\ auth[p].password = Password
        /\ auth[p].message = "Account is deactivated"


\* C12: a refreshToken call whose token is tampered with, signed with another key
\* or expired at the call, or whose subject is no User row, fails with Unauthorized
\* and returns no token; a call that returned an access token had a token with a
\* valid signature, not expired at the call, whose subject is a User row, and the
\* access token carries that subject.
C12_RefreshRequiresValidToken ==
    \A p \in AuthProcs :
        auth[p].op = "refresh"
        => \A t \in auth[p].token :
              /\ (\/ ~t.intact
                  \/ t.secret # JwtRefreshSecret
                  \/ t.exp <= auth[p].at
                  \/ findUserById(t.sub) = {})
                   => /\ auth[p].accessToken = {}
                      /\ auth[p].pc = "done" => auth[p].outcome = "Unauthorized"
              /\ (auth[p].pc = "done" /\ auth[p].outcome # "ok")
                   => auth[p].outcome = "Unauthorized" /\ auth[p].accessToken = {}
              /\ auth[p].outcome = "ok"
                   => /\ Signed(t, JwtRefreshSecret)
                      /\ auth[p].at < t.exp
                      /\ findUserById(t.sub) # {}
                      /\ \E a \in auth[p].accessToken :
                            a.sub = t.sub /\ Signed(a, JwtSecret)

\* One call with a well-signed, unexpired token of a user that is gone was refused
\* while another call got its access token.
C12_Witness ==
    \E p, q \in AuthProcs :
        /\ auth[p].op = "refresh" /\ auth[p].outcome = "Unauthorized"
        /\ \E t \in auth[p].token :
              Signed(t, JwtRefreshSecret) /\ auth[p].at < t.exp /\ t.sub = GoneUserId
        /\ auth[q].op = "refresh" /\ auth[q].outcome = "ok"
        /\ \E a \in auth[q].accessToken : a.sub = 1


\* ------------------------------------------- users service: specification
\* Bodies of PATCH /users/:id: a new name, a new role.
UpdateUserData ==
    {[name |-> "renamed", role |-> Null], [name |-> Null, role |-> ADMIN],
     [name |-> Null, role |-> USER]}

\* Tenant 1 with an admin and a user, tenant 2 with an admin.
InitUsers ==
    /\ tenants = {TenantRow(1, DefaultCreditsLimit), TenantRow(2, DefaultCreditsLimit)}
    /\ \E active \in BOOLEAN :
         users = {UserRow(1, Ann, ADMIN, 1, TRUE), UserRow(2, Bob, USER, 1, active),
                  UserRow(3, Cat, ADMIN, 2, TRUE)}
    /\ subscriptions = {}
    /\ auth = [p \in AuthProcs |-> IdleAuth]
    /\ uops = [p \in UserProcs |-> IdleUop]
    /\ now = 0
    /\ authCalls = 0
    /\ NoAi
    /\ NoReg
    /\ NoHooks
    /\ NoQa
    /\ NoBill

NextUsers ==
    \/ \E p \in UserProcs, id \in {2, 3, GoneUserId}, tenantId \in {1, 2},
          currentUserRole \in {ADMIN, USER}, data \in UpdateUserData :
         updateUser(p, id, tenantId, currentUserRole, data)
    \/ \E p \in UserProcs : UpdateUserFind(p)
    \/ \E p \in UserProcs : UpdateUserWrite(p)
    \/ \E p \in UserProcs, id \in {2, 3, GoneUserId}, tenantId \in {1, 2},
          currentUserRole \in {ADMIN, USER} :
         deactivateUser(p, id, tenantId, currentUserRole)
    \/ \E p \in UserProcs : DeactivateUserFind(p)
    \/ \E p \in UserProcs : DeactivateUserWrite(p)
    \/ \E p \in UserProcs : UopReturn(p)

SpecUsers == InitUsers /\ [][NextUsers]_vars

\* ------------------------------------------------ users service: claims
\* The call of p, in the next state, is on a user of another tenant than the
\* caller's.
CrossTenant(p) ==
    \E u \in users : u.id = uops'[p].id /\ u.tenantId # uops'[p].tenantId

\* The rows of users other than the caller's tenant's.
RowsOutside(rows, tenantId) == {u \in rows : u.tenantId # tenantId}

\* C19: updateUser and deactivateUser called for tenant T on a user of another
\* tenant never reach their update, change no User row in any of their steps,
\* and end with Forbidden; and no step of any call for tenant T changes a row
\* that belongs to another tenant.
C19_NoCrossTenantMutation ==
    [][\A p \in UserProcs :
         /\ (uops'[p].pc # "idle" /\ CrossTenant(p))
            => /\ uops'[p].pc \in {"findById", "done"}
               /\ uops'[p].pc = "done" => uops'[p].outcome = "Forbidden"
               /\ uops'[p] # uops[p] => UNCHANGED users
         /\ (uops'[p].pc # "idle" /\ uops'[p] # uops[p])
            => RowsOutside(users', uops'[p].tenantId) = RowsOutside(users, uops'[p].tenantId)]_vars

\* An admin of tenant 1 has been refused both operations on the admin of
\* tenant 2.
C19_Witness ==
    \E p, q \in UserProcs :
        /\ uops[p].pc = "done" /\ uops[p].op = "updateUser"
        /\ uops[p].id = 3 /\ uops[p].tenantId = 1 /\ uops[p].currentUserRole = ADMIN
        /\ uops[p].message = "Cannot update user from different tenant"
        /\ uops[q].pc = "done" /\ uops[q].op = "deactivateUser"
        /\ uops[q].id = 3 /\ uops[q].tenantId = 1 /\ uops[q].currentUserRole = ADMIN
        /\ uops[q].message = "Cannot deactivate user from different tenant"
        /\ UserRow(3, Cat, ADMIN, 2, TRUE) \in users

\* The call of p, in the next state, is one a caller who is not an admin may
\* not make: a role change of an existing user, or a deactivation.
NeedsAdmin(p) ==
    /\ uops'[p].currentUserRole # ADMIN
    /\ \/ uops'[p].op = "deactivateUser"
       \/ /\ uops'[p].op = "updateUser"
          /\ uops'[p].data.role # Null
          /\ findUserById(uops'[p].id) # {}

\* C20: a caller who is not an admin changes no user's role through updateUser
\* and deactivates no user through deactivateUser: the call never reaches its
\* update, changes no User row and ends with Forbidden; deactivateUser fails so
\* in the step that calls it, before the user is looked up.
C20_NonAdminCannotChangeRoleOrDeactivate ==
    [][\A p \in UserProcs :
         (uops'[p].pc # "idle" /\ uops'[p].currentUserRole # Null /\ NeedsAdmin(p))
         => /\ uops'[p].pc \in {"findById", "done"}
            /\ uops'[p].pc = "done" => uops'[p].outcome = "Forbidden"
            /\ uops'[p] # uops[p] => UNCHANGED users
            /\ uops'[p].op = "deactivateUser"
               => /\ uops'[p].pc = "done"
                  /\ uops'[p].message = "Only admins can deactivate users"]_vars

\* A plain user of tenant 1 has been refused a role change of a user of the
\* same tenant and the deactivation of a user that does not exist.
C20_Witness ==
    \E p, q \in UserProcs :
        /\ uops[p].pc = "done" /\ uops[p].op = "updateUser"
        /\ uops[p].id = 2 /\ uops[p].tenantId = 1 /\ uops[p].currentUserRole = USER
        /\ uops[p].data.role = ADMIN
        /\ uops[p].message = "Only admins can change user roles"
        /\ uops[q].pc = "done" /\ uops[q].op = "deactivateUser"
        /\ uops[q].id = GoneUserId /\ uops[q].currentUserRole = USER
        /\ uops[q].outcome = "Forbidden"
        /\ \E u \in users : u.id = 2 /\ u.role = USER

\* ------------------------------------------------- webhooks and billing
\* Total number of webhook deliveries in one behaviour.
MaxHookCalls == 2

HookProcs == {"w1", "w2"}

FREE == "free"
STARTER == "starter"
PRO == "pro"
ENTERPRISE == "enterprise"

\* PLAN_FEATURES[plan]: aiCreditsPerMonth and apiRequestsPerMinute
PLAN_FEATURES(plan) ==
    CASE plan = FREE -> [aiCreditsPerMonth |-> 100, apiRequestsPerMinute |-> 10]
      [] plan = STARTER -> [aiCreditsPerMonth |-> 1000, apiRequestsPerMinute |-> 50]
      [] plan = PRO -> [aiCreditsPerMonth |-> 10000, apiRequestsPerMinute |-> 200]
      [] plan = ENTERPRISE ->
            [aiCreditsPerMonth |-> 100000, apiRequestsPerMinute |-> 1000]

\* SubscriptionStatus
SubscriptionStatuses ==
    {"active", "canceled", "incomplete", "incomplete_expired", "past_due",
     "trialing", "unpaid"}

\* BillingService.mapStripeStatus
mapStripeStatus(stripeStatus) ==
    IF stripeStatus \in SubscriptionStatuses THEN stripeStatus ELSE "active"

\* The signing key the provider and the server share, and another key.
WebhookKey == "whsec_shared"
OtherKey == "whsec_other"

\* configService.get('STRIPE_WEBHOOK_SECRET') when the variable is not set
Unset == "unset"

\* A Stripe.Subscription object as an event carries it.
StripeSubscription(id, tenantId, plan, status, periodStart, periodEnd, cancelAtEnd) ==
    [id |-> id, metadata |-> [tenantId |-> tenantId, plan |-> plan], status |-> status,
     current_period_start |-> periodStart, current_period_end |-> periodEnd,
     cancel_at_period_end |-> cancelAtEnd]

\* Provider events: id, type and data.object. Event ids are the provider's
\* (evt_...); a tenantId of 0 and a plan of Null stand for a metadata entry that
\* is missing. EvUpdated carries a status the provider may add later.
EvCreated ==
    [id |-> "evt_created", type |-> "customer.subscription.created",
     object |-> StripeSubscription("sub_1", 1, PRO, "trialing", 1, 2, FALSE)]

EvCreatedNoRow ==
    [id |-> "evt_created_2", type |-> "customer.subscription.created",
     object |-> StripeSubscription("sub_2", 2, STARTER, "trialing", 1, 2, FALSE)]

EvCreatedNoTenant ==
    [id |-> "evt_created_3", type |-> "customer.subscription.created",
     object |-> StripeSubscription("sub_1", 0, PRO, "active", 1, 2, FALSE)]

EvCreatedNoPlan ==
    [id |-> "evt_created_4", type |-> "customer.subscription.created",
     object |-> StripeSubscription("sub_1", 1, Null, "active", 1, 2, FALSE)]

EvUpdated ==
    [id |-> "evt_updated", type |-> "customer.subscription.updated",
     object |-> StripeSubscription("sub_1", 1, PRO, "paused", 2, 3, TRUE)]

EvDeleted ==
    [id |-> "evt_deleted", type |-> "customer.subscription.deleted",
     object |-> StripeSubscription("sub_1", 1, PRO, "canceled", 2, 3, FALSE)]

EvInvoice ==
    [id |-> "evt_invoice", type |-> "invoice.payment_succeeded",
     object |-> StripeSubscription(Null, 0, Null, Null, 0, 0, FALSE)]

EvUnhandled ==
    [id |-> "evt_other", type |-> "charge.refunded",
     object |-> StripeSubscription(Null, 0, Null, Null, 0, 0, FALSE)]

Events ==
    {EvCreated, EvCreatedNoRow, EvCreatedNoTenant, EvCreatedNoPlan, EvUpdated, EvDeleted,
     EvInvoice, EvUnhandled}

\* The stripe-signature header: the key that signed and the payload it signed.
Signature(key, payload) == [key |-> key, payload |-> payload]

\* stripe.webhooks.constructEvent(body, signature, webhookSecret) does not throw
constructEvent(body, signature, secret) ==
    signature.key = secret /\ signature.payload = body

\* A Subscription row as the billing service reads and writes it.
SubscriptionRow(id, tenantId, stripeSubscriptionId, plan, status) ==
    [id |-> id, tenantId |-> tenantId, stripeSubscriptionId |-> stripeSubscriptionId,
     stripeCustomerId |-> Null, plan |-> plan, status |-> status,
     currentPeriodStart |-> 0, currentPeriodEnd |-> 1, cancelAtPeriodEnd |-> FALSE,
     tx |-> Committed]

\* prisma.subscription.findUnique({ where: { stripeSubscriptionId } })
findSubscription(stripeSubscriptionId) ==
    {s \in subscriptions : s.stripeSubscriptionId = stripeSubscriptionId}

\* prisma.subscription.update({ where: { tenantId }, data }) of
\* handleSubscriptionCreated
SubscriptionUpdateCreated(rows, tenantId, object) ==
    {IF s.tenantId = tenantId
     THEN [s EXCEPT !.stripeSubscriptionId = object.id,
                    !.plan = object.metadata.plan,
                    !.status = mapStripeStatus(object.status),
                    !.currentPeriodStart = object.current_period_start,
                    !.currentPeriodEnd = object.current_period_end,
                    !.cancelAtPeriodEnd = object.cancel_at_period_end]
     ELSE s : s \in rows}

\* An update that pushes the period end on by the event's period length.
SubscriptionUpdateExtends(rows, id, object) ==
    {IF s.id = id
     THEN [s EXCEPT !.status = mapStripeStatus(object.status),
                    !.currentPeriodStart = object.current_period_start,
                    !.currentPeriodEnd = s.currentPeriodEnd
                        + (object.current_period_end - object.current_period_start),
                    !.cancelAtPeriodEnd = object.cancel_at_period_end]
     ELSE s : s \in rows}

\* prisma.subscription.update({ where: { id }, data }) of handleSubscriptionUpdated
SubscriptionUpdateUpdated(rows, id, object) ==
    {IF s.id = id
     THEN [s EXCEPT !.status = mapStripeStatus(object.status),
                    !.currentPeriodStart = object.current_period_start,
                    !.currentPeriodEnd = object.current_period_end,
                    !.cancelAtPeriodEnd = object.cancel_at_period_end]
     ELSE s : s \in rows}

\* An update that cancels the subscription and keeps its plan.
SubscriptionUpdateCancelsOnly(rows, id) ==
    {IF s.id = id THEN [s EXCEPT !.status = "canceled"] ELSE s : s \in rows}

\* prisma.subscription.update({ where: { id }, data }) of handleSubscriptionDeleted
SubscriptionUpdateDeleted(rows, id) ==
    {IF s.id = id THEN [s EXCEPT !.status = "canceled", !.plan = FREE] ELSE s :
        s \in rows}

\* prisma.tenant.update({ where: { id }, data: { plan } }) of updatePlan
TenantUpdatePlan(rows, id, plan) ==
    {IF t.id = id /\ t.tx = Committed THEN [t EXCEPT !.plan = plan] ELSE t : t \in rows}

\* prisma.tenant.update({ where: { id }, data: { settings } }) of updateSettings
TenantUpdateSettings(rows, id, settings) ==
    {IF t.id = id /\ t.tx = Committed THEN [t EXCEPT !.settings = settings] ELSE t :
        t \in rows}

\* Settings that are the free plan's whatever the plan.
PlanSettingsOfFree(plan) ==
    [aiCreditsLimit |-> PLAN_FEATURES(FREE).aiCreditsPerMonth,
     apiRateLimit |-> PLAN_FEATURES(FREE).apiRequestsPerMinute]

\* The settings handleSubscriptionCreated / Deleted pass to updateSettings
PlanSettings(plan) ==
    [aiCreditsLimit |-> PLAN_FEATURES(plan).aiCreditsPerMonth,
     apiRateLimit |-> PLAN_FEATURES(plan).apiRequestsPerMinute]


\* One delivery of the webhook endpoint. `called`, `before` and `overlap` are
\* history: the reconciler the dispatch called, the Subscription and Tenant
\* tables when it was called, and whether another delivery wrote to those
\* tables while the reconciler ran.
IdleHook ==
    [pc |-> "idle", signature |-> {}, body |-> {}, event |-> {}, rowId |-> Null,
     subscription |-> {}, tenantId |-> 0, plan |-> Null, outcome |-> "none",
     message |-> Null, called |-> Null, failed |-> FALSE, before |-> {},
     overlap |-> FALSE]

\* The id the database gives a WebhookEvent row created without one.
GeneratedId(n) == "whe_" \o ToString(n)

\* The event of delivery p.
EventOf(p) == CHOOSE e \in hook[p].event : TRUE

\* A write of delivery p to Subscription or Tenant: every other delivery whose
\* reconciler is running has been overlapped.
Overlapping(p, rec) ==
    [q \in HookProcs |->
        IF q = p THEN rec
        ELSE IF hook[q].before # {} /\ hook[q].pc \notin {"mark", "done"}
             THEN [hook[q] EXCEPT !.overlap = TRUE]
        ELSE hook[q]]

\* A handler that goes on to store and dispatch whatever it receives.
handleStripeWebhookUnverified(p, signature, body) ==
    /\ hook[p].pc = "idle"
    /\ hookCalls < MaxHookCalls
    /\ hookCalls' = hookCalls + 1
    /\ hook' = [hook EXCEPT ![p] = [IdleHook EXCEPT !.pc = "create",
                                        !.signature = {signature}, !.body = {body},
                                        !.event = {body}]]
    /\ UNCHANGED <<qaVars, billVars, aiVars, regVars, authVars, tenants, webhookEvents, nextHookId,
                   webhookSecret>>

\* WebhooksService.handleStripeWebhook up to its first await: the secret is
\* read and the event is constructed from the raw body and the signature.
handleStripeWebhook(p, signature, body) ==
    /\ hook[p].pc = "idle"
    /\ hookCalls < MaxHookCalls
    /\ hookCalls' = hookCalls + 1
    /\ LET call == [IdleHook EXCEPT !.signature = {signature}, !.body = {body}]
       IN hook' = [hook EXCEPT ![p] =
            IF webhookSecret = Unset
            THEN [call EXCEPT !.pc = "done", !.outcome = "error",
                              !.message = "Webhook secret not configured"]
            ELSE IF ~constructEvent(body, signature, webhookSecret)
            THEN [call EXCEPT !.pc = "done", !.outcome = "error",
                              !.message = "Invalid signature"]
            ELSE [call EXCEPT !.pc = "create", !.event = {body}]]
    /\ UNCHANGED <<qaVars, billVars, aiVars, regVars, authVars, tenants, webhookEvents, nextHookId,
                   webhookSecret>>

\* The pc a dispatch of `event` reaches at its first await, and the reconciler
\* it called.
DispatchOf(event) ==
    CASE event.type = "customer.subscription.created" ->
            IF event.object.metadata.tenantId = 0 \/ event.object.metadata.plan = Null
            THEN [pc |-> "mark", called |-> "handleSubscriptionCreated"]
            ELSE [pc |-> "createdUpdate", called |-> "handleSubscriptionCreated"]
      [] event.type = "customer.subscription.updated" ->
            [pc |-> "updatedFind", called |-> "handleSubscriptionUpdated"]
      [] event.type = "customer.subscription.deleted" ->
            [pc |-> "deletedFind", called |-> "handleSubscriptionDeleted"]
      [] event.type = "invoice.payment_succeeded" ->
            [pc |-> "mark", called |-> "handlePaymentSucceeded"]
      [] event.type = "invoice.payment_failed" ->
            [pc |-> "mark", called |-> "handlePaymentFailed"]
      [] OTHER -> [pc |-> "mark", called |-> Null]

\* await prisma.webhookEvent.create({ data: { type, data } }), then the switch
\* on event.type up to the first await of the reconciler it calls.
HookCreate(p) ==
    /\ hook[p].pc = "create"
    /\ webhookEvents' = webhookEvents \cup
           {[id |-> GeneratedId(nextHookId), type |-> EventOf(p).type,
             data |-> EventOf(p).object, processed |-> FALSE]}
    /\ nextHookId' = nextHookId + 1
    /\ hook' = [hook EXCEPT ![p].pc = DispatchOf(EventOf(p)).pc,
                            ![p].called = DispatchOf(EventOf(p)).called,
                            ![p].rowId = GeneratedId(nextHookId),
                            ![p].before = {[subscriptions |-> subscriptions,
                                            tenants |-> tenants]}]
    /\ UNCHANGED <<qaVars, billVars, aiVars, regVars, authVars, tenants, hookCalls, webhookSecret>>

\* A catch block that logs the error and lets the handler go on.
Swallowed(rec, message) == [rec EXCEPT !.pc = "mark", !.failed = TRUE]

\* The catch block of handleStripeWebhook: log and rethrow.
Rethrown(rec, message) ==
    [rec EXCEPT !.pc = "done", !.outcome = "error", !.message = message,
                !.failed = TRUE]

\* handleSubscriptionCreated: await prisma.subscription.update({ where: { tenantId } })
CreatedUpdate(p) ==
    /\ hook[p].pc = "createdUpdate"
    /\ LET object == EventOf(p).object
           tenantId == object.metadata.tenantId
       IN IF \E s \in subscriptions : s.tenantId = tenantId
          THEN /\ subscriptions' = SubscriptionUpdateCreated(subscriptions, tenantId, object)
               /\ hook' = Overlapping(p, [hook[p] EXCEPT !.pc = "planFind",
                                             !.tenantId = tenantId,
                                             !.plan = object.metadata.plan])
          ELSE /\ hook' = [hook EXCEPT ![p] = Rethrown(hook[p], "Subscription to update not found")]
               /\ UNCHANGED subscriptions
    /\ UNCHANGED <<qaVars, billVars, aiVars, authVars, tenants, users, teamMembers, regCalls, updates, reg,
                   webhookEvents, hookCalls, nextHookId, webhookSecret>>

\* handleSubscriptionUpdated: await prisma.subscription.findUnique(...)
UpdatedFind(p) ==
    /\ hook[p].pc = "updatedFind"
    /\ LET found == findSubscription(EventOf(p).object.id)
       IN hook' = [hook EXCEPT ![p].subscription = found,
                               ![p].pc = IF found = {} THEN "mark" ELSE "updatedWrite"]
    /\ UNCHANGED <<qaVars, billVars, aiVars, regVars, authVars, tenants, webhookEvents, hookCalls,
                   nextHookId, webhookSecret>>

\* handleSubscriptionUpdated: await prisma.subscription.update({ where: { id } })
UpdatedWrite(p) ==
    /\ hook[p].pc = "updatedWrite"
    /\ LET subscription == CHOOSE s \in hook[p].subscription : TRUE
       IN subscriptions' =
            SubscriptionUpdateUpdated(subscriptions, subscription.id, EventOf(p).object)
    /\ hook' = Overlapping(p, [hook[p] EXCEPT !.pc = "mark"])
    /\ UNCHANGED <<qaVars, billVars, aiVars, authVars, tenants, users, teamMembers, regCalls, updates, reg,
                   webhookEvents, hookCalls, nextHookId, webhookSecret>>

\* handleSubscriptionDeleted: await prisma.subscription.findUnique(...)
DeletedFind(p) ==
    /\ hook[p].pc = "deletedFind"
    /\ LET found == findSubscription(EventOf(p).object.id)
       IN hook' = [hook EXCEPT ![p].subscription = found,
                               ![p].pc = IF found = {} THEN "mark" ELSE "deletedWrite"]
    /\ UNCHANGED <<qaVars, billVars, aiVars, regVars, authVars, tenants, webhookEvents, hookCalls,
                   nextHookId, webhookSecret>>

\* handleSubscriptionDeleted: await prisma.subscription.update({ where: { id } })
DeletedWrite(p) ==
    /\ hook[p].pc = "deletedWrite"
    /\ LET subscription == CHOOSE s \in hook[p].subscription : TRUE
       IN /\ subscriptions' = SubscriptionUpdateDeleted(subscriptions, subscription.id)
          /\ hook' = Overlapping(p, [hook[p] EXCEPT !.pc = "planFind",
                                        !.tenantId = subscription.tenantId,
                                        !.plan = FREE])
    /\ UNCHANGED <<qaVars, billVars, aiVars, authVars, tenants, users, teamMembers, regCalls, updates, reg,
                   webhookEvents, hookCalls, nextHookId, webhookSecret>>

\* TenantsService.updatePlan: await this.findById(id)
PlanFind(p) ==
    /\ hook[p].pc = "planFind"
    /\ hook' = [hook EXCEPT ![p] =
                  IF findById(hook[p].tenantId) = {}
                  THEN Rethrown(hook[p], "Tenant not found")
                  ELSE [hook[p] EXCEPT !.pc = "planWrite"]]
    /\ UNCHANGED <<qaVars, billVars, aiVars, regVars, authVars, tenants, webhookEvents, hookCalls,
                   nextHookId, webhookSecret>>

\* TenantsService.updatePlan: await prisma.tenant.update({ data: { plan } })
PlanWrite(p) ==
    /\ hook[p].pc = "planWrite"
    /\ tenants' = TenantUpdatePlan(tenants, hook[p].tenantId, hook[p].plan)
    /\ hook' = Overlapping(p, [hook[p] EXCEPT !.pc = "settingsFind"])
    /\ UNCHANGED <<qaVars, billVars, aiVars, regVars, authVars, webhookEvents, hookCalls, nextHookId,
                   webhookSecret>>

\* TenantsService.updateSettings: await this.findById(id)
SettingsFind(p) ==
    /\ hook[p].pc = "settingsFind"
    /\ hook' = [hook EXCEPT ![p] =
                  IF findById(hook[p].tenantId) = {}
                  THEN Rethrown(hook[p], "Tenant not found")
                  ELSE [hook[p] EXCEPT !.pc = "settingsWrite"]]
    /\ UNCHANGED <<qaVars, billVars, aiVars, regVars, authVars, tenants, webhookEvents, hookCalls,
                   nextHookId, webhookSecret>>

\* TenantsService.updateSettings: await prisma.tenant.update({ data: { settings } })
SettingsWrite(p) ==
    /\ hook[p].pc = "settingsWrite"
    /\ tenants' = TenantUpdateSettings(tenants, hook[p].tenantId, PlanSettings(hook[p].plan))
    /\ hook' = Overlapping(p, [hook[p] EXCEPT !.pc = "mark"])
    /\ UNCHANGED <<qaVars, billVars, aiVars, regVars, authVars, webhookEvents, hookCalls, nextHookId,
                   webhookSecret>>

\* await prisma.webhookEvent.update({ where: { id: event.id }, data: { processed: true } })
\* update rejects when no row has that id, and the catch block rethrows.
HookMark(p) ==
    /\ hook[p].pc = "mark"
    /\ IF \E r \in webhookEvents : r.id = EventOf(p).id
       THEN /\ webhookEvents' =
                 {IF r.id = EventOf(p).id THEN [r EXCEPT !.processed = TRUE] ELSE r :
                     r \in webhookEvents}
            /\ hook' = [hook EXCEPT ![p].pc = "done", ![p].outcome = "ok"]
       ELSE /\ hook' = [hook EXCEPT ![p].pc = "done", ![p].outcome = "error",
                                    ![p].message = "WebhookEvent to update not found"]
            /\ UNCHANGED webhookEvents
    /\ UNCHANGED <<qaVars, billVars, aiVars, regVars, authVars, tenants, hookCalls, nextHookId, webhookSecret>>

\* The promise of handleStripeWebhook settles; the delivery is over.
HookReturn(p) ==
    /\ hook[p].pc = "done"
    /\ hook' = [hook EXCEPT ![p] = IdleHook]
    /\ UNCHANGED <<qaVars, billVars, aiVars, regVars, authVars, tenants, webhookEvents, hookCalls,
                   nextHookId, webhookSecret>>

\* ------------------------------------------- webhooks: specification
\* The deliveries a provider, or anyone who can reach the endpoint, may send:
\* an event signed with the shared key, the same signed with another key, and
\* a body that is not the one the signature was made for.
Deliveries ==
    {[signature |-> Signature(WebhookKey, e), body |-> e] : e \in Events}
    \cup {[signature |-> Signature(OtherKey, EvDeleted), body |-> EvDeleted],
          [signature |-> Signature(WebhookKey, EvUpdated), body |-> EvDeleted]}

\* Tenant 1 as registration left it, or with a paid plan, or with limits an
\* admin set by hand. No tenant 2 exists.
HookTenants ==
    {TenantRow(1, DefaultCreditsLimit),
     [TenantRow(1, DefaultCreditsLimit) EXCEPT !.plan = PRO, !.settings = PlanSettings(PRO)],
     [TenantRow(1, 60) EXCEPT !.plan = STARTER]}

InitHook ==
    /\ \E t \in HookTenants :
         /\ tenants = {t}
         /\ subscriptions =
              {IF t.plan = FREE THEN SubscriptionRow(1, 1, Null, FREE, "ACTIVE")
               ELSE SubscriptionRow(1, 1, "sub_1", t.plan, "active")}
    /\ users = {}
    /\ NoAi
    /\ NoReg
    /\ NoAuth
    /\ NoQa
    /\ NoBill
    /\ webhookEvents = {}
    /\ hook = [p \in HookProcs |-> IdleHook]
    /\ hookCalls = 0
    /\ nextHookId = 1
    /\ webhookSecret \in {Unset, WebhookKey}

NextHook ==
    \/ \E p \in HookProcs, d \in Deliveries : handleStripeWebhook(p, d.signature, d.body)
    \/ \E p \in HookProcs : HookCreate(p)
    \/ \E p \in HookProcs : CreatedUpdate(p)
    \/ \E p \in HookProcs : UpdatedFind(p)
    \/ \E p \in HookProcs : UpdatedWrite(p)
    \/ \E p \in HookProcs : DeletedFind(p)
    \/ \E p \in HookProcs : DeletedWrite(p)
    \/ \E p \in HookProcs : PlanFind(p)
    \/ \E p \in HookProcs : PlanWrite(p)
    \/ \E p \in HookProcs : SettingsFind(p)
    \/ \E p \in HookProcs : SettingsWrite(p)
    \/ \E p \in HookProcs : HookMark(p)
    \/ \E p \in HookProcs : HookReturn(p)

SpecHook == InitHook /\ [][NextHook]_vars


\* ------------------------------------------------- webhooks: claims
\* The signature and the body delivery p was called with, in the next state.
SignatureOf(p) == CHOOSE s \in hook'[p].signature : TRUE
BodyOf(p) == CHOOSE b \in hook'[p].body : TRUE

\* C13: when the webhook secret is unset, or the signature was not made with it
\* for the raw body received, handleStripeWebhook fails in the step that calls
\* it: no WebhookEvent row is created, no reconciler is called and no
\* Subscription or Tenant row changes, then or before the delivery is over.
C13_RejectedBeforeAnyEffect ==
    [][\A p \in HookProcs :
         /\ (/\ hook[p].pc = "idle"
             /\ hook'[p].pc # "idle"
             /\ \/ webhookSecret = Unset
                \/ SignatureOf(p).key # webhookSecret
                \/ SignatureOf(p).payload # BodyOf(p))
            => /\ hook'[p].pc = "done"
               /\ hook'[p].outcome = "error"
               /\ hook'[p].message \in {"Webhook secret not configured", "Invalid signature"}
               /\ hook'[p].rowId = Null
               /\ hook'[p].called = Null
               /\ UNCHANGED <<webhookEvents, subscriptions, tenants, nextHookId>>
         /\ (/\ hook[p].pc = "done"
             /\ hook[p].rowId = Null
             /\ hook'[p] # hook[p])
            => /\ hook'[p] = IdleHook
               /\ UNCHANGED <<webhookEvents, subscriptions, tenants, nextHookId>>]_vars

\* A delivery whose body is not the one that was signed has been rejected, after
\* an earlier delivery was stored.
C13_Witness ==
    \E p \in HookProcs :
        /\ hook[p].pc = "done"
        /\ hook[p].message = "Invalid signature"
        /\ \E s \in hook[p].signature : s.key = webhookSecret /\ s.payload \notin hook[p].body
        /\ hook[p].rowId = Null
        /\ webhookEvents # {}


\* The WebhookEvent row delivery p stored.
StoredRow(p) == {r \in webhookEvents : r.id = hook[p].rowId}

\* C14: a delivery with a valid signature has its WebhookEvent row stored with
\* processed = FALSE before the dispatch, and once the dispatch has completed
\* without an exception (unhandled types included) that row is marked
\* processed = TRUE and the handler returns successfully.
C14_StoredThenMarkedProcessed ==
    \A p \in HookProcs :
        /\ hook[p].event # {} /\ hook[p].pc \notin {"create", "done"}
           => /\ StoredRow(p) # {}
              /\ \A r \in StoredRow(p) : ~r.processed
        /\ hook[p].event # {} /\ hook[p].pc = "done" /\ ~hook[p].failed
           => /\ hook[p].outcome = "ok"
              /\ StoredRow(p) # {}
              /\ \A r \in StoredRow(p) : r.processed


\* C15: when a reconciler of the Billing Service throws during the dispatch,
\* handleStripeWebhook fails with that exception and the WebhookEvent row it
\* stored stays processed = FALSE.
C15_DispatchFailurePropagates ==
    \A p \in HookProcs :
        hook[p].failed
        => /\ hook[p].pc = "done"
           /\ hook[p].outcome = "error"
           /\ hook[p].message \in {"Subscription to update not found", "Tenant not found"}
           /\ StoredRow(p) # {}
           /\ \A r \in StoredRow(p) : ~r.processed

\* handleSubscriptionCreated has thrown for a tenant that has no Subscription
\* row, and the delivery has failed with its exception.
C15_Witness ==
    \E p \in HookProcs :
        /\ hook[p].failed
        /\ hook[p].pc = "done"
        /\ hook[p].called = "handleSubscriptionCreated"
        /\ hook[p].event = {EvCreatedNoRow}
        /\ hook[p].message = "Subscription to update not found"
        /\ \E r \in StoredRow(p) : ~r.processed


\* ------------------------------------ billing reconcilers, run alone
\* The Subscription and Tenant tables a reconciler leaves when it runs from `db`
\* with no other writer, whether it returns or throws.
TenantIn(db, id) == \E t \in db.tenants : t.id = id /\ t.tx = Committed

\* updatePlan then updateSettings, as handleSubscriptionCreated and
\* handleSubscriptionDeleted call them
RunPlanChange(db, tenantId, plan) ==
    IF ~TenantIn(db, tenantId) THEN db
    ELSE [db EXCEPT !.tenants =
            TenantUpdateSettings(TenantUpdatePlan(db.tenants, tenantId, plan), tenantId,
                                 PlanSettings(plan))]

\* BillingService.handleSubscriptionCreated
RunCreated(db, object) ==
    LET tenantId == object.metadata.tenantId
        plan == object.metadata.plan
    IN IF tenantId = 0 \/ plan = Null THEN db
       ELSE IF ~\E s \in db.subscriptions : s.tenantId = tenantId THEN db
       ELSE RunPlanChange(
                [db EXCEPT !.subscriptions =
                    SubscriptionUpdateCreated(db.subscriptions, tenantId, object)],
                tenantId, plan)

\* BillingService.handleSubscriptionUpdated
RunUpdated(db, object) ==
    LET found == {s \in db.subscriptions : s.stripeSubscriptionId = object.id}
    IN IF found = {} THEN db
       ELSE [db EXCEPT !.subscriptions =
                SubscriptionUpdateUpdated(db.subscriptions, (CHOOSE s \in found : TRUE).id,
                                          object)]

\* BillingService.handleSubscriptionDeleted
RunDeleted(db, object) ==
    LET found == {s \in db.subscriptions : s.stripeSubscriptionId = object.id}
    IN IF found = {} THEN db
       ELSE LET subscription == CHOOSE s \in found : TRUE
            IN RunPlanChange(
                   [db EXCEPT !.subscriptions =
                       SubscriptionUpdateDeleted(db.subscriptions, subscription.id)],
                   subscription.tenantId, FREE)

\* The switch of handleStripeWebhook
Reconcile(db, event) ==
    CASE event.type = "customer.subscription.created" -> RunCreated(db, event.object)
      [] event.type = "customer.subscription.updated" -> RunUpdated(db, event.object)
      [] event.type = "customer.subscription.deleted" -> RunDeleted(db, event.object)
      [] OTHER -> db

\* The tables now.
Db == [subscriptions |-> subscriptions, tenants |-> tenants]

\* Delivery p has finished its dispatch and no other delivery wrote meanwhile.
RanAlone(p) ==
    /\ hook[p].before # {}
    /\ hook[p].pc \in {"mark", "done"}
    /\ ~hook[p].overlap

\* The step in which the dispatch of delivery p finishes, having run alone.
FinishesAlone(p) ==
    /\ hook[p].pc \notin {"idle", "mark", "done"}
    /\ hook'[p].pc \in {"mark", "done"}
    /\ ~hook'[p].overlap

\* The tables when the dispatch of delivery p was called.
BeforeOf(p) == CHOOSE b \in hook'[p].before : TRUE

\* C16: a reconciler that ran alone leaves the tables as Reconcile gives them, and
\* applying the same event again, once or twice, from any state the tables
\* reach leaves them as one application does.
C16_RedeliveryIdempotent ==
    /\ [][\A p \in HookProcs :
            FinishesAlone(p)
            => [subscriptions |-> subscriptions', tenants |-> tenants']
                  = Reconcile(BeforeOf(p), CHOOSE e \in hook'[p].event : TRUE)]_vars
    /\ [](\A e \in Events :
            LET once == Reconcile(Db, e)
            IN /\ Reconcile(once, e) = once
               /\ Reconcile(Reconcile(once, e), e) = once)

\* The same subscription event was delivered twice in a row: the first
\* delivery changed the tables, the second started from what the first left.
C16_Witness ==
    \E p, q \in HookProcs :
        /\ p # q
        /\ RanAlone(p) /\ RanAlone(q)
        /\ ~hook[p].failed /\ ~hook[q].failed
        /\ hook[p].event = hook[q].event
        /\ hook[p].called \in {"handleSubscriptionCreated", "handleSubscriptionUpdated",
                               "handleSubscriptionDeleted"}
        /\ hook[q].before = {Db}
        /\ hook[p].before # hook[q].before


\* The reconciler and the resolved Subscription row of delivery p, next state.
Resolved(p) == CHOOSE s \in hook'[p].subscription : TRUE

\* C17: a customer.subscription.deleted event whose provider subscription id
\* resolves to a Subscription row sets that row to status canceled and plan
\* free, and the owning tenant's plan to free and its settings to the free
\* limits (100 credits, 10 requests), whatever they were: each write does so in
\* the step that makes it, the reconciler does not fail, and the tables hold all
\* of it when the reconciler ends having run alone.
C17_DeletedDowngradesToFree ==
    [][\A p \in HookProcs :
         (hook'[p].called = "handleSubscriptionDeleted" /\ hook'[p].subscription # {})
         => /\ ~hook'[p].failed
            /\ (hook[p].pc = "deletedWrite" /\ hook'[p].pc # "deletedWrite")
               => /\ hook'[p].pc = "planFind"
                  /\ \E s \in subscriptions' :
                        /\ s.id = Resolved(p).id
                        /\ s.status = "canceled"
                        /\ s.plan = FREE
                  /\ hook'[p].tenantId = Resolved(p).tenantId
            /\ (hook[p].pc = "planWrite" /\ hook'[p].pc # "planWrite")
               => \E t \in tenants' : t.id = Resolved(p).tenantId /\ t.plan = FREE
            /\ (hook[p].pc = "settingsWrite" /\ hook'[p].pc # "settingsWrite")
               => \E t \in tenants' :
                     /\ t.id = Resolved(p).tenantId
                     /\ t.settings = [aiCreditsLimit |-> 100, apiRateLimit |-> 10]
            /\ FinishesAlone(p)
               => /\ hook[p].pc = "settingsWrite"
                  /\ \E s \in subscriptions' :
                        /\ s.id = Resolved(p).id
                        /\ s.status = "canceled"
                        /\ s.plan = FREE
                  /\ \E t \in tenants' :
                        /\ t.id = Resolved(p).tenantId
                        /\ t.plan = FREE
                        /\ t.settings = [aiCreditsLimit |-> 100, apiRateLimit |-> 10]]_vars

\* A tenant on a paid plan, with limits that are not the free ones, has been
\* downgraded by a deleted event.
C17_Witness ==
    \E p \in HookProcs :
        /\ RanAlone(p)
        /\ hook[p].called = "handleSubscriptionDeleted"
        /\ hook[p].subscription # {}
        /\ \E b \in hook[p].before : \E t \in b.tenants :
              /\ t.plan # FREE
              /\ t.settings.aiCreditsLimit # 100
        /\ \A t \in tenants :
              t.plan = FREE /\ t.settings = [aiCreditsLimit |-> 100, apiRateLimit |-> 10]
        /\ \A s \in subscriptions : s.status = "canceled" /\ s.plan = FREE

\* C18: when handleSubscriptionCreated completes for an event that carries
\* tenantId and plan, the tenant's Subscription has the event's plan and the
\* mapped status, Tenant.plan is that plan and Tenant.settings holds the plan's
\* aiCreditsPerMonth and apiRequestsPerMinute (reconciler run alone); a delivery
\* whose event lacks tenantId or plan changes neither table in any of its steps.
C18_CreatedPropagatesPlan ==
    [][\A p \in HookProcs :
         hook'[p].called = "handleSubscriptionCreated"
         => LET object == (CHOOSE e \in hook'[p].event : TRUE).object
                tenantId == object.metadata.tenantId
                plan == object.metadata.plan
            IN IF tenantId = 0 \/ plan = Null
               THEN hook'[p] # hook[p] => UNCHANGED <<subscriptions, tenants>>
               ELSE (FinishesAlone(p) /\ ~hook'[p].failed)
                    => /\ \E s \in subscriptions' :
                             /\ s.tenantId = tenantId
                             /\ s.plan = plan
                             /\ s.status = mapStripeStatus(object.status)
                       /\ \E t \in tenants' :
                             /\ t.id = tenantId
                             /\ t.plan = plan
                             /\ t.settings.aiCreditsLimit
                                   = PLAN_FEATURES(plan).aiCreditsPerMonth
                             /\ t.settings.apiRateLimit
                                   = PLAN_FEATURES(plan).apiRequestsPerMinute]_vars

\* A free tenant has been moved to the pro plan by a created event, and a
\* created event without a plan has been dispatched.
C18_Witness ==
    \E p, q \in HookProcs :
        /\ RanAlone(p)
        /\ hook[p].event = {EvCreated}
        /\ ~hook[p].failed
        /\ \E b \in hook[p].before : \E t \in b.tenants : t.plan = FREE
        /\ \E t \in tenants :
              /\ t.plan = PRO
              /\ t.settings = [aiCreditsLimit |-> 10000, apiRateLimit |-> 200]
        /\ \E s \in subscriptions : s.plan = PRO /\ s.stripeSubscriptionId = "sub_1"
        /\ hook[q].event = {EvCreatedNoPlan}
        /\ hook[q].pc \in {"mark", "done"}


\* ------------------------------------------- document Q&A: confidence
\* Answers are sequences of characters, as the slugs are. The phrases
\* calculateConfidence looks for, and pieces answers are made of: the same
\* phrase capitalised, a phrase in two halves, and text with no phrase.
CannotFind == <<"c", "a", "n", "n", "o", "t", " ", "f", "i", "n", "d">>
NotMentioned == <<"n", "o", "t", " ", "m", "e", "n", "t", "i", "o", "n", "e", "d">>
SpecificallyStates ==
    <<"s", "p", "e", "c", "i", "f", "i", "c", "a", "l", "l", "y", " ", "s", "t", "a", "t",
      "e", "s">>
AccordingTo == <<"a", "c", "c", "o", "r", "d", "i", "n", "g", " ", "t", "o">>
CapitalCannotFind == <<"C", "a", "n", "n", "o", "t", " ", "f", "i", "n", "d">>
Cannot == <<"c", "a", "n", "n", "o", "t">>
Find == <<" ", "f", "i", "n", "d">>
Filler == <<"y", "e", "s", ".", " ">>

AnswerParts ==
    {CannotFind, NotMentioned, SpecificallyStates, AccordingTo, CapitalCannotFind, Cannot,
     Find, Filler}

\* The number of parts an answer is made of, at most.
MaxParts == 2

\* The parts of `parts`, one after the other.
RECURSIVE Join(_)
Join(parts) == IF parts = <<>> THEN <<>> ELSE Head(parts) \o Join(Tail(parts))

\* completion.choices[0]?.message?.content || '': any text, the empty one included
Answers == {Join(parts) : parts \in UNION {[1..n -> AnswerParts] : n \in 0..MaxParts}}

\* String.prototype.includes
includes(str, searchString) ==
    \E i \in 1..(Len(str) - Len(searchString) + 1) :
        SubSeq(str, i, i + Len(searchString) - 1) = searchString

\* A confidence that looks for the phrases of a sure answer first.
calculateConfidenceSureFirst(text) ==
    IF includes(text, SpecificallyStates) \/ includes(text, AccordingTo) THEN 9
    ELSE IF includes(text, CannotFind) \/ includes(text, NotMentioned) THEN 1
    ELSE 7

\* AiService.calculateConfidence, in tenths (0.1, 0.9, 0.7)
calculateConfidence(text) ==
    IF includes(text, CannotFind) \/ includes(text, NotMentioned) THEN 1
    ELSE IF includes(text, SpecificallyStates) \/ includes(text, AccordingTo) THEN 9
    ELSE 7

\* answerQuestion: const confidence = this.calculateConfidence(answer)
AnswerConfidence ==
    /\ confidence = 0
    /\ confidence' = calculateConfidence(answer)
    /\ UNCHANGED <<authVars, hookVars, billVars, answer, aiVars, regVars, tenants>>

InitQa ==
    /\ answer \in Answers
    /\ confidence = 0
    /\ tenants = {}
    /\ users = {}
    /\ subscriptions = {}
    /\ NoAi
    /\ NoReg
    /\ NoAuth
    /\ NoHooks
    /\ NoBill

NextQa == AnswerConfidence

SpecQa == InitQa /\ [][NextQa]_vars

\* C21 (as claimed): an answer containing "cannot find" has confidence 0.1, one
\* containing "according to" has 0.9, and every other answer has 0.7.
C21_ConfidenceByTwoPhrases ==
    confidence # 0
    => /\ includes(answer, CannotFind) => confidence = 1
       /\ includes(answer, AccordingTo) => confidence = 9
       /\ (~includes(answer, CannotFind) /\ ~includes(answer, AccordingTo))
          => confidence = 7

\* C21 (amended): the confidence depends on the answer text alone; it is 0.1
\* when the answer contains "cannot find" or "not mentioned", whatever else it
\* contains; otherwise 0.9 when it contains "specifically states" or
\* "according to"; otherwise 0.7. The match is on the exact characters.
C21_ConfidenceByPhrases ==
    confidence # 0
    => LET unsure == includes(answer, CannotFind) \/ includes(answer, NotMentioned)
           sure == includes(answer, SpecificallyStates) \/ includes(answer, AccordingTo)
       IN /\ unsure => confidence = 1
          /\ (sure /\ ~unsure) => confidence = 9
          /\ (~sure /\ ~unsure) => confidence = 7
          /\ confidence \in {1, 7, 9}

\* An answer with "cannot find", put together from two halves, and "according
\* to" has confidence 0.1.
C21_Witness ==
    /\ confidence = 1
    /\ includes(answer, CannotFind)
    /\ includes(answer, AccordingTo)


\* ------------------------------------------------------ billing service
\* Total number of billing-service invocations in one behaviour.
MaxBillCalls == 2

BillProcs == {"b1", "b2"}

IdleBill ==
    [pc |-> "idle", op |-> Null, tenantId |-> 0, plan |-> Null, customerId |-> Null,
     outcome |-> Null, message |-> Null]

\* customer.id of the customer stripe.customers.create returns
CustomerId(n) == "cus_" \o ToString(n)

\* prisma.subscription.findUnique({ where: { tenantId } })
findSubscriptionByTenant(tenantId) == {s \in subscriptions : s.tenantId = tenantId}

\* prisma.subscription.update({ where: { tenantId }, data: { stripeCustomerId } })
SubscriptionUpdateCustomer(rows, tenantId, customerId) ==
    {IF s.tenantId = tenantId THEN [s EXCEPT !.stripeCustomerId = customerId] ELSE s :
        s \in rows}

\* throw new BadRequestException(message)
BadRequest(rec, message) ==
    [rec EXCEPT !.pc = "done", !.outcome = "BadRequest", !.message = message]

\* BillingService.createCustomer, up to the call of the payment provider
createCustomer(p, tenantId) ==
    /\ bill[p].pc = "idle"
    /\ billCalls < MaxBillCalls
    /\ billCalls' = billCalls + 1
    /\ bill' = [bill EXCEPT ![p] = [IdleBill EXCEPT !.pc = "customersCreate",
                                       !.op = "createCustomer", !.tenantId = tenantId]]
    /\ UNCHANGED <<qaVars, authVars, hookVars, aiVars, regVars, tenants, customers,
                   nextCustomerId>>

\* createCustomer: await this.stripe.customers.create({ email, name, metadata })
\* The provider makes a new customer on every call.
CustomersCreate(p) ==
    /\ bill[p].pc = "customersCreate"
    /\ customers' = customers \cup
          {[id |-> CustomerId(nextCustomerId), tenantId |-> bill[p].tenantId]}
    /\ nextCustomerId' = nextCustomerId + 1
    /\ bill' = [bill EXCEPT ![p].pc = "subscriptionUpdate",
                            ![p].customerId = CustomerId(nextCustomerId)]
    /\ UNCHANGED <<qaVars, authVars, hookVars, aiVars, regVars, tenants, billCalls>>

\* createCustomer: the call of the payment provider rejects; catch throws
\* BadRequest, which createCheckoutSession lets through.
CustomersCreateThrows(p) ==
    /\ bill[p].pc = "customersCreate"
    /\ bill' = [bill EXCEPT ![p] = BadRequest(bill[p], "Failed to create customer")]
    /\ UNCHANGED <<qaVars, authVars, hookVars, aiVars, regVars, tenants, customers,
                   billCalls, nextCustomerId>>

\* An update that also resets the plan of the row.
CustomerSubscriptionUpdateResetsPlan(p) ==
    /\ bill[p].pc = "subscriptionUpdate"
    /\ subscriptions' =
          {[s EXCEPT !.plan = FREE] :
              s \in SubscriptionUpdateCustomer(subscriptions, bill[p].tenantId,
                                               bill[p].customerId)}
    /\ bill' = [bill EXCEPT ![p].pc = "done", ![p].outcome = "ok"]
    /\ UNCHANGED <<qaVars, authVars, hookVars, aiVars, tenants, users, teamMembers,
                   regCalls, updates, reg, customers, billCalls, nextCustomerId>>

\* createCustomer: await this.prisma.subscription.update({ where: { tenantId } })
\* and the return, to the caller or into createCheckoutSession.
CustomerSubscriptionUpdate(p) ==
    /\ bill[p].pc = "subscriptionUpdate"
    /\ IF findSubscriptionByTenant(bill[p].tenantId) = {}
       THEN /\ bill' = [bill EXCEPT ![p] = BadRequest(bill[p], "Failed to create customer")]
            /\ UNCHANGED subscriptions
       ELSE /\ subscriptions' = SubscriptionUpdateCustomer(subscriptions, bill[p].tenantId,
                                                           bill[p].customerId)
            /\ bill' = [bill EXCEPT ![p] =
                          IF bill[p].op = "createCustomer"
                          THEN [bill[p] EXCEPT !.pc = "done", !.outcome = "ok"]
                          ELSE [bill[p] EXCEPT !.pc = "sessionCreate"]]
    /\ UNCHANGED <<qaVars, authVars, hookVars, aiVars, tenants, users, teamMembers,
                   regCalls, updates, reg, customers, billCalls, nextCustomerId>>

\* BillingService.createCheckoutSession, up to its first await
createCheckoutSession(p, tenantId, plan) ==
    /\ bill[p].pc = "idle"
    /\ billCalls < MaxBillCalls
    /\ billCalls' = billCalls + 1
    /\ LET call == [IdleBill EXCEPT !.op = "createCheckoutSession", !.tenantId = tenantId,
                                    !.plan = plan]
       IN bill' = [bill EXCEPT ![p] =
                     IF plan = FREE
                     THEN BadRequest(call, "Cannot create checkout session for free plan")
                     ELSE [call EXCEPT !.pc = "checkoutFind"]]
    /\ UNCHANGED <<qaVars, authVars, hookVars, aiVars, regVars, tenants, customers,
                   nextCustomerId>>

\* createCheckoutSession: await prisma.subscription.findUnique({ where: { tenantId } });
\* a row without a customer id makes it call createCustomer.
CheckoutFind(p) ==
    /\ bill[p].pc = "checkoutFind"
    /\ LET found == findSubscriptionByTenant(bill[p].tenantId)
       IN bill' = [bill EXCEPT ![p] =
                     IF found = {} THEN BadRequest(bill[p], "Subscription not found")
                     ELSE LET customerId == (CHOOSE s \in found : TRUE).stripeCustomerId
                          IN IF customerId = Null
                             THEN [bill[p] EXCEPT !.pc = "customersCreate"]
                             ELSE [bill[p] EXCEPT !.pc = "sessionCreate",
                                                  !.customerId = customerId]]
    /\ UNCHANGED <<qaVars, authVars, hookVars, aiVars, regVars, tenants, customers,
                   billCalls, nextCustomerId>>

\* await this.stripe.checkout.sessions.create(...) or
\* await this.stripe.billingPortal.sessions.create(...): a session url, or
\* BadRequest when the provider rejects.
SessionCreate(p) ==
    /\ bill[p].pc = "sessionCreate"
    /\ \/ bill' = [bill EXCEPT ![p].pc = "done", ![p].outcome = "ok"]
       \/ bill' = [bill EXCEPT ![p] =
                     BadRequest(bill[p],
                                IF bill[p].op = "createPortalSession"
                                THEN "Failed to create portal session"
                                ELSE "Failed to create checkout session")]
    /\ UNCHANGED <<qaVars, authVars, hookVars, aiVars, regVars, tenants, customers,
                   billCalls, nextCustomerId>>

\* BillingService.createPortalSession and getSubscriptionDetails, up to the
\* first await
BillingRead(p, op, tenantId) ==
    /\ bill[p].pc = "idle"
    /\ billCalls < MaxBillCalls
    /\ billCalls' = billCalls + 1
    /\ bill' = [bill EXCEPT ![p] = [IdleBill EXCEPT !.pc = "find", !.op = op,
                                       !.tenantId = tenantId]]
    /\ UNCHANGED <<qaVars, authVars, hookVars, aiVars, regVars, tenants, customers,
                   nextCustomerId>>

\* createPortalSession / getSubscriptionDetails:
\* await prisma.subscription.findUnique({ where: { tenantId } }) and the test
BillingFind(p) ==
    /\ bill[p].pc = "find"
    /\ LET found == findSubscriptionByTenant(bill[p].tenantId)
       IN bill' = [bill EXCEPT ![p] =
                     IF bill[p].op = "createPortalSession"
                     THEN IF found = {} \/ \A s \in found : s.stripeCustomerId = Null
                          THEN BadRequest(bill[p], "Customer not found")
                          ELSE [bill[p] EXCEPT !.pc = "sessionCreate",
                                   !.customerId = (CHOOSE s \in found : TRUE).stripeCustomerId]
                     ELSE IF found = {}
                          THEN BadRequest(bill[p], "Subscription not found")
                          ELSE [bill[p] EXCEPT !.pc = "usage"]]
    /\ UNCHANGED <<qaVars, authVars, hookVars, aiVars, regVars, tenants, customers,
                   billCalls, nextCustomerId>>

\* getSubscriptionDetails: await this.tenantsService.getTenantUsage(tenantId)
DetailsUsage(p) ==
    /\ bill[p].pc = "usage"
    /\ bill' = [bill EXCEPT ![p].pc = "done", ![p].outcome = "ok"]
    /\ UNCHANGED <<qaVars, authVars, hookVars, aiVars, regVars, tenants, customers,
                   billCalls, nextCustomerId>>

\* The promise settles.
BillReturn(p) ==
    /\ bill[p].pc = "done"
    /\ bill' = [bill EXCEPT ![p] = IdleBill]
    /\ UNCHANGED <<qaVars, authVars, hookVars, aiVars, regVars, tenants, customers,
                   billCalls, nextCustomerId>>

\* ------------------------------------------- billing: specification
\* Tenant 1 as registration left it or on the pro plan (its provider customer
\* then made outside this service); one delivery of the provider for it.
InitBill ==
    /\ \E t \in {TenantRow(1, DefaultCreditsLimit),
                  [TenantRow(1, DefaultCreditsLimit) EXCEPT !.plan = PRO,
                                                            !.settings = PlanSettings(PRO)]} :
         /\ tenants = {t}
         /\ subscriptions =
              {IF t.plan = FREE THEN SubscriptionRow(1, 1, Null, FREE, "ACTIVE")
               ELSE SubscriptionRow(1, 1, "sub_1", PRO, "active")}
    /\ users = {}
    /\ customers = {}
    /\ bill = [p \in BillProcs |-> IdleBill]
    /\ billCalls = 0
    /\ nextCustomerId = 1
    /\ webhookEvents = {}
    /\ hook = [p \in HookProcs |-> IdleHook]
    /\ hookCalls = 0
    /\ nextHookId = 1
    /\ webhookSecret = WebhookKey
    /\ NoAi
    /\ NoReg
    /\ NoAuth
    /\ NoQa

NextBill ==
    \/ \E p \in BillProcs, t \in {1, 2} : createCustomer(p, t)
    \/ \E p \in BillProcs : CustomersCreate(p)
    \/ \E p \in BillProcs : CustomersCreateThrows(p)
    \/ \E p \in BillProcs : CustomerSubscriptionUpdate(p)
    \/ \E p \in BillProcs, t \in {1, 2}, plan \in {FREE, PRO} :
         createCheckoutSession(p, t, plan)
    \/ \E p \in BillProcs : CheckoutFind(p)
    \/ \E p \in BillProcs : SessionCreate(p)
    \/ \E p \in BillProcs, op \in {"createPortalSession", "getSubscriptionDetails"},
          t \in {1, 2} : BillingRead(p, op, t)
    \/ \E p \in BillProcs : BillingFind(p)
    \/ \E p \in BillProcs : DetailsUsage(p)
    \/ \E p \in BillProcs : BillReturn(p)
    \/ \E e \in {EvCreated, EvUpdated, EvDeleted} :
         hookCalls = 0 /\ handleStripeWebhook("w1", Signature(WebhookKey, e), e)
    \/ HookCreate("w1")
    \/ CreatedUpdate("w1")
    \/ UpdatedFind("w1")
    \/ UpdatedWrite("w1")
    \/ DeletedFind("w1")
    \/ DeletedWrite("w1")
    \/ PlanFind("w1")
    \/ PlanWrite("w1")
    \/ SettingsFind("w1")
    \/ SettingsWrite("w1")
    \/ HookMark("w1")
    \/ HookReturn("w1")

SpecBill == InitBill /\ [][NextBill]_vars


\* ------------------------------------------------------ billing: claims
\* No invocation of the billing service is under way.
BillingQuiet == \A p \in BillProcs : bill[p].pc \in {"idle", "done"}

\* The customers the payment provider holds for a tenant.
CustomersOf(tenantId) == {c \in customers : c.tenantId = tenantId}

\* C22: after any number of createCustomer and createCheckoutSession calls for
\* a tenant, one after the other or at once, the payment provider holds
\* exactly one customer for that tenant and Subscription.stripeCustomerId is
\* its id.
C22_OneCustomerPerTenant ==
    BillingQuiet
    => \A s \in subscriptions :
          CustomersOf(s.tenantId) # {}
          => /\ Cardinality(CustomersOf(s.tenantId)) = 1
             /\ \E c \in CustomersOf(s.tenantId) : s.stripeCustomerId = c.id

\* Some step of a reconciler writes the Subscription table.
ReconcilerWrites ==
    \E p \in HookProcs :
        /\ hook[p].pc \in {"createdUpdate", "updatedWrite", "deletedWrite"}
        /\ hook'[p].pc # hook[p].pc

\* C23 (as claimed): after its creation a Subscription row is changed by the
\* webhook reconcilers only; createCustomer, createCheckoutSession,
\* createPortalSession and getSubscriptionDetails leave every field of every
\* row as it is.
C23_OnlyReconcilersWrite ==
    [][subscriptions' # subscriptions => ReconcilerWrites]_vars

\* C23 (amended): a Subscription row is changed by the webhook reconcilers and
\* by createCustomer, called directly or by createCheckoutSession for a
\* tenant without a customer id, which sets stripeCustomerId on the tenant's
\* row and changes no other field and no other row; the other steps of
\* createCheckoutSession, createPortalSession and getSubscriptionDetails
\* change nothing, and no step adds or removes a row.
C23_ReconcilersAndCustomerIdOnly ==
    [][(subscriptions' # subscriptions /\ ~ReconcilerWrites)
       => \E p \in BillProcs :
             /\ bill[p].pc = "subscriptionUpdate"
             /\ bill'[p].pc # "subscriptionUpdate"
             /\ bill[p].customerId # Null
             /\ subscriptions' =
                   {IF s.tenantId = bill[p].tenantId
                    THEN [s EXCEPT !.stripeCustomerId = bill[p].customerId]
                    ELSE s : s \in subscriptions}]_vars

\* A row a reconciler moved to the pro plan has been given a customer id by
\* createCustomer, and a portal session has been made for it.
C23_Witness ==
    /\ \E s \in subscriptions :
          /\ s.plan = PRO
          /\ s.stripeSubscriptionId = "sub_1"
          /\ s.stripeCustomerId # Null
    /\ \E p \in BillProcs :
          /\ bill[p].op = "createPortalSession"
          /\ bill[p].outcome = "ok"


\* ------------------------------------ AI gateway: one request at a time
\* The gateway serving one request at a time: a single caller, each invocation
\* ending before the next begins. Nothing here changes Tenant.settings.
NextAiSeq ==
    \/ \E t \in TenantIds : summarizeText("a1", t)
    \/ \E t \in TenantIds : answerQuestion("a1", t)
    \/ GetTenant("a1")
    \/ CheckCredits("a1")
    \/ CreateRequest("a1")
    \/ ModelReturns("a1")
    \/ ModelThrows("a1")
    \/ UpdateCompleted("a1")
    \/ IncrementUsage("a1")
    \/ CatchUpdate("a1")
    \/ Return("a1")
    \/ Tick

SpecAiSeq == InitAi /\ [][NextAiSeq]_vars

\* The aiCreditsLimit stored in Tenant.settings.
StoredLimit(tenantId) ==
    (CHOOSE t \in findById(tenantId) : TRUE).settings.aiCreditsLimit

C25_UsageAccountsForCompleted ==
    \A p \in AiProcs :
        ai[p].pc = "done" =>
            \A r \in RowOf(p) :
                IF r.status = COMPLETED
                THEN ai[p].charged = r.creditsUsed /\ ai[p].requests = 1
                ELSE ai[p].charged = 0 /\ ai[p].requests = 0

\* C26: a row in status processing belongs to an invocation that has not ended;
\* once the invocation that created it has ended, normally or with an exception,
\* the row is completed or failed. Database statements may be rejected.
C26_NoRowLeftProcessing ==
    \A r \in aiRequests :
        r.status = PROCESSING =>
            \E p \in AiProcs : ai[p].rowId = r.id /\ ai[p].pc \notin {"idle", "done"}

\* C29: the credit check compares against the aiCreditsLimit stored in
\* Tenant.settings, whatever value >= 0 it holds: the limit the check used is the
\* one it read from the row, and with a stored limit of 0 the call is rejected with
\* PaymentRequired.
C29_CheckUsesStoredLimit ==
    \A p \in AiProcs :
        ai[p].pc \notin {"idle", "getTenant", "getUsage"} /\ ai[p].outcome # "NotFound" =>
            /\ ai[p].limitSeen = ai[p].limitRead
            /\ ai[p].limitRead = 0 => ai[p].outcome = "PaymentRequired"


\* ------------------------------------------------ auth: deactivated accounts
\* C27: an operation that issued an access token, login or refreshToken, read a
\* user that was active and whose tenant was active: for a deactivated user, or
\* a user of an inactive tenant, both operations fail with Unauthorized.
C27_NoTokenForDeactivated ==
    \A p \in AuthProcs :
        auth[p].accessToken # {} =>
            \A u \in auth[p].user : u.isActive /\ TenantActive(u)


\* ------------------------------------------- registration: signing fails
\* The transaction commits and jwtService.sign, called (synchronously) inside the
\* same try block, throws (no secret configured, a rejected option): the catch
\* block of register throws Conflict('Registration failed').
TxCommitSignThrows(p) ==
    /\ reg[p].pc = "txCommit"
    /\ tenants' = Commit(tenants, p)
    /\ users' = Commit(users, p)
    /\ teamMembers' = Commit(teamMembers, p)
    /\ subscriptions' = Commit(subscriptions, p)
    /\ reg' = [reg EXCEPT ![p].pc = "done", ![p].outcome = "Conflict",
                          ![p].message = "Registration failed", ![p].failedAt = "sign"]
    /\ UNCHANGED <<svcVars, aiVars, regCalls, updates>>

NextRegFault ==
    \/ NextReg
    \/ \E p \in RegProcs : TxCommitSignThrows(p)

SpecRegFault == InitReg /\ [][NextRegFault]_vars

\* C28: a register call that has failed with Conflict, for whatever reason and at
\* whatever point, has left no Tenant, User, TeamMember or Subscription row of its
\* attempt, also when the failure came after the transaction (signing a token).
C28_FailedRegisterPersistsNothing ==
    \A p \in RegProcs :
        (reg[p].pc = "done" /\ reg[p].outcome = "Conflict") => WroteNothing(p)


\* ------------------------------------------- plan, limits and subscription
\* Settings an admin may send to PUT /tenants/settings (UpdateSettingsDto: any
\* number >= 0).
SettingsInputs ==
    {[aiCreditsLimit |-> 1000, apiRateLimit |-> DefaultRateLimit],
     [aiCreditsLimit |-> 0, apiRateLimit |-> DefaultRateLimit]}

\* TenantsService.updateSettings(id, settings) as the controller calls it for an
\* admin: findById, then prisma.tenant.update({ data: { settings } }). A tenant is
\* never deleted, so the row findById returned is still there at the update.
updateSettings(id, settings) ==
    /\ updates < MaxUpdates
    /\ updates' = updates + 1
    /\ findById(id) # {}
    /\ tenants' = TenantUpdateSettings(tenants, id, settings)
    /\ UNCHANGED <<svcVars, aiVars, users, teamMembers, subscriptions, regCalls, reg>>

\* Tenant 1 as registration left it (free plan, free limits, free Subscription),
\* or on the pro plan with the pro limits and a pro Subscription.
InitPlan ==
    /\ \E plan \in {FREE, PRO} :
         /\ tenants = {[TenantRow(1, PlanSettings(plan).aiCreditsLimit)
                          EXCEPT !.plan = plan, !.settings = PlanSettings(plan)]}
         /\ subscriptions =
              {IF plan = FREE THEN SubscriptionRow(1, 1, Null, FREE, "ACTIVE")
               ELSE SubscriptionRow(1, 1, "sub_1", plan, "active")}
    /\ users = {}
    /\ NoAi
    /\ NoReg
    /\ NoAuth
    /\ NoQa
    /\ NoBill
    /\ webhookEvents = {}
    /\ hook = [p \in HookProcs |-> IdleHook]
    /\ hookCalls = 0
    /\ nextHookId = 1
    /\ webhookSecret = WebhookKey

NextPlan ==
    \/ \E p \in HookProcs, e \in {EvCreated, EvUpdated, EvDeleted} :
         handleStripeWebhook(p, Signature(WebhookKey, e), e)
    \/ \E p \in HookProcs : HookCreate(p)
    \/ \E p \in HookProcs : CreatedUpdate(p)
    \/ \E p \in HookProcs : UpdatedFind(p)
    \/ \E p \in HookProcs : UpdatedWrite(p)
    \/ \E p \in HookProcs : DeletedFind(p)
    \/ \E p \in HookProcs : DeletedWrite(p)
    \/ \E p \in HookProcs : PlanFind(p)
    \/ \E p \in HookProcs : PlanWrite(p)
    \/ \E p \in HookProcs : SettingsFind(p)
    \/ \E p \in HookProcs : SettingsWrite(p)
    \/ \E p \in HookProcs : HookMark(p)
    \/ \E p \in HookProcs : HookReturn(p)
    \/ \E s \in SettingsInputs : updateSettings(1, s)
    \/ \E d \in UpdateData : updateTenant(1, d)

SpecPlan == InitPlan /\ [][NextPlan]_vars

\* No webhook reconciler is between its call and its return.
NoReconcilerRunning == \A p \in HookProcs : hook[p].pc \in {"idle", "create", "mark", "done"}

\* C30: whenever no webhook reconciler is running, each tenant's plan is the plan
\* of its Subscription and its aiCreditsLimit and apiRateLimit are the
\* aiCreditsPerMonth and apiRequestsPerMinute of that plan.
C30_PlanAndLimitsFollowSubscription ==
    NoReconcilerRunning =>
        \A t \in Visible(tenants) : \A s \in subscriptions :
            s.tenantId = t.id =>
                /\ t.plan = s.plan
                /\ t.settings.aiCreditsLimit = PLAN_FEATURES(s.plan).aiCreditsPerMonth
                /\ t.settings.apiRateLimit = PLAN_FEATURES(s.plan).apiRequestsPerMinute

====
